---- MODULE Spec2Model ----
(***************************************************************************)
(* A model of github.com/bassosimone/dnsoverstream: one DNS exchange over  *)
(* a TCP, TLS or QUIC stream.                                              *)
(*                                                                         *)
(* Spec models Transport.Exchange with its cancellation watcher, the       *)
(* stream it drives and the peer that answers.                             *)
(***************************************************************************)
EXTENDS Integers, Sequences, FiniteSets, TLC

\* ------------------------------------------------------------------ bounds

\* The longest response payload the peer sends in the exchange model.
MaxPayload == 3

\* The goroutines that call an opener's Close, and the calls each makes.
NumCallers == 2
MaxCloseCalls == 2

\* The short packed messages framed (beside the lengths around each byte
\* boundary), and the contents tried for each length.
MaxSmallLen == 6
MaxSeed == 3

\* The flag words tried (0..MaxFlags) and the MutateQuery calls in a row.
MaxFlags == 7
MaxApply == 2

\* ------------------------------------------------------- program constants

QueryFlagBlockLengthPadding == 1
QueryFlagDNSSec == 2
QueryMaxResponseSizeTCP == 4096
MaxUint16 == 65535
\* bufio.NewReader's buffer size.
BufSize == 4096

Protocols == {"tcp", "tls", "quic"}

\* ------------------------------------------------------------ flag helpers

HasFlag(flags, bit) == (flags \div bit) % 2 = 1

\* flags |= bit
OrFlag(flags, bit) == IF HasFlag(flags, bit) THEN flags ELSE flags + bit

Min(a, b) == IF a < b THEN a ELSE b

\* -------------------------------------------------------------- the query

NoQuery == [ID |-> 0, Flags |-> 0, MaxSize |-> 0, Name |-> "", Type |-> 0]

\* dnscodec.NewQuery's result, with the fields a caller may then set.
NewQuery(name, id, flags) ==
    [ID |-> id, Flags |-> flags, MaxSize |-> 1232,
     Name |-> name, Type |-> 1]

\* A TCP MutateQuery that sets the flags as the TLS one does.
MutateQueryTCPSetsFlags(msg) ==
    [msg EXCEPT
        !.Flags = OrFlag(OrFlag(@, QueryFlagBlockLengthPadding), QueryFlagDNSSec),
        !.MaxSize = QueryMaxResponseSizeTCP]

\* tcpStreamConn.MutateQuery
MutateQueryTCP(msg) == [msg EXCEPT !.MaxSize = QueryMaxResponseSizeTCP]

\* A TLS MutateQuery that asks for padding but not for DNSSEC.
MutateQueryTLSPaddingOnly(msg) ==
    [msg EXCEPT
        !.Flags = OrFlag(@, QueryFlagBlockLengthPadding),
        !.MaxSize = QueryMaxResponseSizeTCP]

\* A TLS MutateQuery that flips the padding flag instead of setting it.
MutateQueryTLSFlipsPadding(msg) ==
    [msg EXCEPT
        !.Flags = OrFlag(IF HasFlag(@, QueryFlagBlockLengthPadding)
                         THEN @ - QueryFlagBlockLengthPadding
                         ELSE @ + QueryFlagBlockLengthPadding, QueryFlagDNSSec),
        !.MaxSize = QueryMaxResponseSizeTCP]

\* tlsStreamConn.MutateQuery
MutateQueryTLS(msg) ==
    [msg EXCEPT
        !.Flags = OrFlag(OrFlag(@, QueryFlagBlockLengthPadding), QueryFlagDNSSec),
        !.MaxSize = QueryMaxResponseSizeTCP]

\* A QUIC MutateQuery that leaves the ID alone.
MutateQueryQUICKeepsID(msg) ==
    [msg EXCEPT
        !.Flags = OrFlag(OrFlag(@, QueryFlagBlockLengthPadding), QueryFlagDNSSec),
        !.MaxSize = QueryMaxResponseSizeTCP]

\* quicConnAdapter.MutateQuery
MutateQueryQUIC(msg) ==
    [msg EXCEPT
        !.Flags = OrFlag(OrFlag(@, QueryFlagBlockLengthPadding), QueryFlagDNSSec),
        !.ID = 0,
        !.MaxSize = QueryMaxResponseSizeTCP]

\* The dynamic dispatch of MutateQuery on the protocol's adapter.
MutateQuery(p, msg) ==
    CASE p = "tcp" -> MutateQueryTCP(msg)
      [] p = "tls" -> MutateQueryTLS(msg)
      [] p = "quic" -> MutateQueryQUIC(msg)

\* ---------------------------------------------------- the external codec

\* The names the model's callers ask for: one that encodes, one that
\* query.NewMsg rejects, one that queryMsg.Pack rejects.
GoodName == "example.com"
BadName == "\t"
LongLabelName == "aaaa...a.example.com"

\* query.NewMsg: the wire-neutral message of a query, or an error.
NewMsgFails(q) == q.Name = BadName

NewMsg(q) ==
    [ID |-> q.ID, Name |-> q.Name, Type |-> q.Type, UDPSize |-> q.MaxSize,
     DO |-> HasFlag(q.Flags, QueryFlagDNSSec),
     Pad |-> HasFlag(q.Flags, QueryFlagBlockLengthPadding)]

\* queryMsg.Pack: the packed bytes of a message, or an error.
PackFails(m) == m.Name = LongLabelName

Pack(m) ==
    <<m.ID \div 256, m.ID % 256,
      (IF m.DO THEN 2 ELSE 0) + (IF m.Pad THEN 1 ELSE 0),
      m.Type>>

\* respMsg.Unpack: a response needs its ID (2 bytes) and its flags byte.
UnpackFails(raw) == Len(raw) < 3 \/ raw[1] = 255

Unpack(raw) == [ID |-> raw[1] * 256 + raw[2], Response |-> raw[3] % 2 = 1]

\* dnscodec.ParseResponse(queryMsg, respMsg)
ParseResponseFails(qm, rm) == ~rm.Response \/ rm.ID # qm.ID

\* ----------------------------------------------------------------- framing

\* runtimex.Assert(len(rawMsg) <= math.MaxUint16) panics.
newStreamMsgFramePanics(rawMsg) == Len(rawMsg) > MaxUint16

\* A newStreamMsgFrame that writes the low byte of the length first.
newStreamMsgFrameLE(rawMsg) ==
    <<Len(rawMsg) % 256, (Len(rawMsg) \div 256) % 256>> \o rawMsg

\* newStreamMsgFrame: byte(len >> 8), byte(len), rawMsg...
newStreamMsgFrame(rawMsg) ==
    <<(Len(rawMsg) \div 256) % 256, Len(rawMsg) % 256>> \o rawMsg

\* ------------------------------------------------------------------- state

VARIABLES
    proto,          \* the protocol of the dialer
    hasDeadline,    \* the caller's context carries a deadline
    parentDone,     \* "no", or why the caller's context is done
    cancelCalled,   \* the derived context's cancel was called
    cancelPc,       \* where Exchange stood when the caller's context ended
    heap,           \* the query objects, by address
    query,          \* Exchange's local variable query: an address
    orig,           \* the caller's query as it was when Exchange was called
    queryMsg,       \* Exchange's local queryMsg
    pc,             \* where Exchange stands
    ret,            \* what Exchange returned
    wpc,            \* where the watcher goroutine stands
    conn,           \* the connection: underlying closes, closed, once
    streamLog,      \* the calls made on the stream, in order
    sdlSet,         \* the stream holds an I/O deadline
    written,        \* the bytes handed to stream.Write
    wire,           \* the bytes the peer sends
    rdPos,          \* how many of them the stream has delivered
    streamErr,      \* the first error a stream Read returned
    br,             \* the bufio.Reader: buffered bytes and pending error
    dst,            \* the bytes io.ReadFull has stored so far
    want,           \* the length of the buffer io.ReadFull fills
    rawResp,        \* Exchange's local rawResp
    connLog,        \* the calls made on the dialer and the connection
    writeErr,       \* the error stream.Write returned
    \* the opener's Close, called by several goroutines
    ocKind,         \* the protocol of the opener under test
    ocDone,         \* sync.Once: done
    ocMu,           \* sync.Once: the goroutine holding m, or 0
    ocCalls,        \* how often the underlying close primitive ran
    ocRes,          \* what the underlying close primitive returns
    ocPc,           \* where each goroutine stands in Close
    ocErr,          \* each goroutine's named result err
    ocRets,         \* what each goroutine's calls of Close returned
    \* framing and sending one packed message
    fr,             \* the message, its frame, the Write calls made
    \* MutateQuery on its own
    mq,             \* the opener's protocol, the query before and after
    \* ExchangeWithStreamOpener on a caller's opener, with and without hooks
    ew,             \* the inputs, the hooks, and the state of each call
    \* Exchange calls running concurrently on one Transport
    par,            \* the endpoint, each call's state, the connections dialed
    \* a TCP or TLS opener and the stream it opened
    st              \* the stream's kind, its connection, the calls made

ctxVars == <<hasDeadline, parentDone, cancelCalled, cancelPc>>
queryVars == <<heap, query, orig, queryMsg>>
connVars == <<wpc, conn>>
streamVars == <<streamLog, sdlSet, written, wire, rdPos, streamErr>>
readVars == <<br, dst, want, rawResp>>
callVars == <<connLog, writeErr>>
exVars == <<proto, pc, ret, ctxVars, queryVars, connVars, streamVars, readVars,
            callVars>>
ocVars == <<ocKind, ocDone, ocMu, ocCalls, ocRes, ocPc, ocErr, ocRets>>
auxVars == <<ocVars, fr, mq, ew, par, st>>
vars == <<exVars, auxVars>>

\* The derived context is done: its parent is, or cancel was called.
CtxDone == parentDone # "no" \/ cancelCalled

\* ctx.Err() of the caller's context.
CtxErr == IF parentDone = "deadline" THEN "context.DeadlineExceeded"
          ELSE "context.Canceled"

CtxErrors == {"context.Canceled", "context.DeadlineExceeded"}

NoResp == <<>>
NoMsg == [ID |-> 0, Name |-> "", Type |-> 0, UDPSize |-> 0, DO |-> FALSE, Pad |-> FALSE]
NoRet == [resp |-> NoResp, err |-> "unset"]

\* The queries the model's callers pass to Exchange.
CallerQueries ==
    {NewQuery(GoodName, 258, 4), NewQuery(GoodName, 0, 0),
     NewQuery(BadName, 258, 0), NewQuery(LongLabelName, 258, 0)}

\* The payloads the model's peer answers with.
Payloads ==
    {p \in {<<>>, <<255>>, <<0, 0, 1>>, <<1, 2, 0>>} : Len(p) <= MaxPayload}
    \cup {[i \in 1..MaxPayload |-> IF i = 2 THEN 2 ELSE 1]}

\* ------------------------------------------------------------ the stream

Op(name, n) == [op |-> name, n |-> n]

\* A call on the dialer or the connection, and the error it returned.
Call(name, err) == [op |-> name, err |-> err]

\* ctx.Deadline(): a time that is not the zero time, when ctx has one.
CtxDeadline == IF hasDeadline THEN 1 ELSE 0

\* How many bytes one Read of the stream may return into a buffer of cap
\* bytes: all that fit, or fewer while within the first MaxPayload + 2 bytes
\* of what the peer sends.
StreamReadSizes(cap) ==
    LET most == Min(cap, Len(wire) - rdPos)
    IN  {k \in 1..most : k = most \/ rdPos + k <= MaxPayload + 2}

\* What one Read of the stream may return into a buffer of cap bytes: an
\* error once the connection is closed or the I/O deadline has passed,
\* otherwise the next bytes of the peer (with or without its EOF), its EOF,
\* or a network error.
StreamReadOutcomes(cap) ==
    IF conn.closed THEN {[n |-> 0, err |-> "net.ErrClosed"]}
    ELSE IF sdlSet /\ parentDone = "deadline"
    THEN {[n |-> 0, err |-> "os.ErrDeadlineExceeded"]}
    ELSE {[n |-> k, err |-> e] :
            k \in StreamReadSizes(cap), e \in {"nil", "io.EOF"}}
         \cup {[n |-> 0, err |-> "io.EOF"], [n |-> 0, err |-> "read failed"]}

NoOutcome == [n |-> 0, err |-> "nil"]

EmptyReader == [buf |-> <<>>, err |-> "nil"]

\* bufio.Reader.Read(p) with len(p) = plen > 0, where o and chunk are what
\* the stream returns if the reader calls it (used tells whether it does).
BufioRead(b, plen, o, chunk) ==
    IF Len(b.buf) = 0
    THEN IF b.err # "nil"
         THEN [data |-> <<>>, b |-> EmptyReader, err |-> b.err, used |-> FALSE]
         ELSE IF plen >= BufSize
         THEN [data |-> chunk, b |-> EmptyReader, err |-> o.err, used |-> TRUE]
         ELSE IF o.n = 0
         THEN [data |-> <<>>, b |-> EmptyReader, err |-> o.err, used |-> TRUE]
         ELSE LET k == Min(plen, o.n)
              IN  [data |-> SubSeq(chunk, 1, k),
                   b |-> [buf |-> SubSeq(chunk, k + 1, o.n), err |-> o.err],
                   err |-> "nil", used |-> TRUE]
    ELSE LET k == Min(plen, Len(b.buf))
         IN  [data |-> SubSeq(b.buf, 1, k),
              b |-> [buf |-> SubSeq(b.buf, k + 1, Len(b.buf)), err |-> b.err],
              err |-> "nil", used |-> FALSE]

\* Whether bufio.Reader.Read calls the stream.
BufioNeedsStream(b) == Len(b.buf) = 0 /\ b.err = "nil"

\* The buffer bufio.Reader.Read hands to the stream.
BufioCap(plen) == IF plen >= BufSize THEN plen ELSE BufSize

\* A Go buffer of n zeroed bytes whose first Len(d) bytes were stored.
Filled(d, n) == [i \in 1..n |-> IF i <= Len(d) THEN d[i] ELSE 0]

\* An io.ReadAtLeast that takes a short read for a full one.
ReadAtLeastErrPartial(n, min, err) == IF n > 0 THEN "nil" ELSE err

\* io.ReadAtLeast's result once its loop has ended with n bytes and err.
ReadAtLeastErr(n, min, err) ==
    IF n >= min THEN "nil"
    ELSE IF n > 0 /\ err = "io.EOF" THEN "io.ErrUnexpectedEOF"
    ELSE err

\* io.ReadAtLeast's loop condition.
ReadAtLeastLoops(n, min, err) == n < min /\ err = "nil"

\* An iteration that stores what it read ahead of the bytes it holds.
ReadFullIterPrepend(b, sofar, min, o) ==
    LET chunk == SubSeq(wire, rdPos + 1, rdPos + o.n)
        r == BufioRead(b, min - Len(sofar), o, chunk)
        now == r.data \o sofar
    IN  [dst |-> now, b |-> r.b, used |-> r.used, n |-> o.n,
         loops |-> ReadAtLeastLoops(Len(now), min, r.err),
         err |-> ReadAtLeastErr(Len(now), min, r.err),
         serr |-> IF r.used THEN o.err ELSE "nil"]

\* One iteration of io.ReadFull's loop: [dst, b, err, loops, used, n].
ReadFullIter(b, sofar, min, o) ==
    LET chunk == SubSeq(wire, rdPos + 1, rdPos + o.n)
        r == BufioRead(b, min - Len(sofar), o, chunk)
        now == sofar \o r.data
    IN  [dst |-> now, b |-> r.b, used |-> r.used, n |-> o.n,
         loops |-> ReadAtLeastLoops(Len(now), min, r.err),
         err |-> ReadAtLeastErr(Len(now), min, r.err),
         serr |-> IF r.used THEN o.err ELSE "nil"]

\* -------------------------------------------------------- the connection

NewConn == [closeCalls |-> 0, closed |-> FALSE, once |-> FALSE]

\* conn.CloseWithError, dispatched on the protocol: net.Conn.Close for TCP
\* and TLS, the once-guarded quic.Conn.CloseWithError for QUIC.
ConnClose(p, c) ==
    IF p = "quic"
    THEN IF c.once THEN c
         ELSE [closeCalls |-> c.closeCalls + 1, closed |-> TRUE, once |-> TRUE]
    ELSE [c EXCEPT !.closeCalls = @ + 1, !.closed = TRUE]

\* What stream.Write may return.
StreamWriteOutcomes ==
    IF conn.closed THEN {"net.ErrClosed"}
    ELSE IF sdlSet /\ parentDone = "deadline" THEN {"os.ErrDeadlineExceeded"}
    ELSE {"nil", "EPIPE"}

\* ------------------------------------------------------------- Exchange

\* A Clone that hands back the object it was given.
CloneAlias(h, addr) == [heap |-> h, addr |-> addr]

\* query.Clone(): a fresh object holding a copy, and its address.
Clone(h, addr) == [heap |-> [h EXCEPT !["clone"] = h[addr]], addr |-> "clone"]

Fail(e) == [resp |-> NoResp, err |-> e]

\* Exchange is called with the query q, and its peer will send w.
ExchangeEntry(q, w) ==
    /\ parentDone = "no"
    /\ cancelCalled = FALSE
    /\ cancelPc = "none"
    /\ heap = [caller |-> q, clone |-> NoQuery]
    /\ orig = q
    /\ query = "caller"
    /\ queryMsg = NoMsg
    /\ pc = "dial"
    /\ ret = NoRet
    /\ wpc = "none"
    /\ conn = NewConn
    /\ streamLog = <<>>
    /\ sdlSet = FALSE
    /\ written = <<>>
    /\ wire = w
    /\ rdPos = 0
    /\ streamErr = "nil"
    /\ br = EmptyReader
    /\ dst = <<>>
    /\ want = 0
    /\ rawResp = <<>>
    /\ connLog = <<>>
    /\ writeErr = "nil"

ExchangeInit ==
    /\ proto \in Protocols
    /\ hasDeadline \in BOOLEAN
    /\ \E q \in CallerQueries, p \in Payloads :
           ExchangeEntry(q, newStreamMsgFrame(p))

\* An Exchange that goes on after a failed dial.
DialFailGoesOn ==
    /\ pc = "dial"
    /\ LET err == IF parentDone # "no" THEN CtxErr ELSE "dial failed"
       IN  /\ connLog' = Append(connLog, Call("DialContext", err))
           /\ ret' = Fail(err)
    /\ pc' = "spawn"
    /\ UNCHANGED <<auxVars, proto, writeErr, ctxVars, queryVars, connVars, streamVars, readVars>>

\* 1. dt.dialer.DialContext fails: with the context's error when the context
\* is done, with its own error otherwise.
DialFail ==
    /\ pc = "dial"
    /\ LET err == IF parentDone # "no" THEN CtxErr ELSE "dial failed"
       IN  /\ connLog' = Append(connLog, Call("DialContext", err))
           /\ ret' = Fail(err)
    /\ pc' = "done"
    /\ UNCHANGED <<auxVars, proto, writeErr, ctxVars, queryVars, connVars, streamVars, readVars>>

\* 1. dt.dialer.DialContext returns a connection.
DialOK ==
    /\ pc = "dial"
    /\ parentDone = "no"
    /\ connLog' = Append(connLog, Call("DialContext", "nil"))
    /\ pc' = "spawn"
    /\ UNCHANGED <<auxVars, proto, writeErr, ret, ctxVars, queryVars, connVars, streamVars, readVars>>

\* 2. context.WithCancel, defer cancel(), go func() { ... }().
Spawn ==
    /\ pc = "spawn"
    /\ wpc' = "wait"
    /\ pc' = "open"
    /\ UNCHANGED <<auxVars, proto, callVars, ret, ctxVars, queryVars, conn, streamVars, readVars>>

\* A watcher that closes the connection, then closes it once more.
WatcherClosesAgain ==
    /\ wpc = "wait"
    /\ CtxDone
    /\ conn' = ConnClose(proto, conn)
    /\ wpc' = IF conn.closed THEN "done" ELSE "wait"
    /\ UNCHANGED <<auxVars, proto, callVars, pc, ret, ctxVars, queryVars, streamVars,
                   readVars>>

\* A watcher that waits for the caller's context, not for the derived one.
WatcherOfParent ==
    /\ wpc = "wait"
    /\ parentDone # "no"
    /\ conn' = ConnClose(proto, conn)
    /\ wpc' = "done"
    /\ UNCHANGED <<auxVars, proto, callVars, pc, ret, ctxVars, queryVars, streamVars,
                   readVars>>

\* A watcher that closes the connection without waiting for ctx.Done().
WatcherEager ==
    /\ wpc = "wait"
    /\ conn' = ConnClose(proto, conn)
    /\ wpc' = "done"
    /\ UNCHANGED <<auxVars, proto, callVars, pc, ret, ctxVars, queryVars, streamVars,
                   readVars>>

\* The watcher: <-ctx.Done(); conn.CloseWithError(quicNoError, "").
Watcher ==
    /\ wpc = "wait"
    /\ CtxDone
    /\ conn' = ConnClose(proto, conn)
    /\ wpc' = "done"
    /\ UNCHANGED <<auxVars, proto, callVars, pc, ret, ctxVars, queryVars, streamVars, readVars>>

\* 3. conn.OpenStream() returns a stream; defer stream.Close().
OpenStreamOK ==
    /\ pc = "open"
    /\ proto = "quic" => ~conn.closed
    /\ connLog' = Append(connLog, Call("OpenStream", "nil"))
    /\ pc' = "deadline"
    /\ UNCHANGED <<auxVars, proto, writeErr, ret, ctxVars, queryVars, connVars, streamVars, readVars>>

\* An Exchange that calls OpenStream again when it fails.
OpenStreamFailRetries ==
    /\ pc = "open"
    /\ proto = "quic"
    /\ Len(connLog) < 3
    /\ connLog' = Append(connLog, Call("OpenStream", "open stream failed"))
    /\ UNCHANGED <<auxVars, proto, writeErr, pc, ret, ctxVars, queryVars, connVars,
                   streamVars, readVars>>

\* An Exchange that notes the error of OpenStream and goes on.
OpenStreamFailGoesOn ==
    /\ pc = "open"
    /\ proto = "quic"
    /\ LET err == IF conn.closed THEN "net.ErrClosed" ELSE "open stream failed"
       IN  /\ connLog' = Append(connLog, Call("OpenStream", err))
           /\ ret' = Fail(err)
    /\ pc' = "deadline"
    /\ UNCHANGED <<auxVars, proto, writeErr, ctxVars, queryVars, connVars, streamVars,
                   readVars>>

\* 3. conn.OpenStream() fails (QUIC only: for TCP and TLS it cannot).
OpenStreamFail ==
    /\ pc = "open"
    /\ proto = "quic"
    /\ LET err == IF conn.closed THEN "net.ErrClosed" ELSE "open stream failed"
       IN  /\ connLog' = Append(connLog, Call("OpenStream", err))
           /\ ret' = Fail(err)
    /\ pc' = "deferCancel"
    /\ UNCHANGED <<auxVars, proto, writeErr, ctxVars, queryVars, connVars, streamVars, readVars>>

\* An Exchange that sets the stream's deadline whether ctx has one or not.
SetDeadlineAlways ==
    /\ pc = "deadline"
    /\ streamLog' = Append(streamLog, Op("SetDeadline", CtxDeadline))
    /\ \E ok \in BOOLEAN : sdlSet' = (ok /\ hasDeadline)
    /\ pc' = "prepare"
    /\ UNCHANGED <<auxVars, proto, callVars, ret, ctxVars, queryVars, connVars, written,
                   wire, rdPos, streamErr, readVars>>

\* An Exchange that returns the error of stream.SetDeadline.
SetDeadlineChecked ==
    /\ pc = "deadline"
    /\ IF hasDeadline
       THEN /\ streamLog' = Append(streamLog, Op("SetDeadline", CtxDeadline))
            /\ \E ok \in BOOLEAN :
                 /\ sdlSet' = ok
                 /\ IF ok THEN pc' = "prepare" /\ UNCHANGED ret
                    ELSE pc' = "deferStream" /\ ret' = Fail("set deadline failed")
       ELSE /\ pc' = "prepare"
            /\ UNCHANGED <<streamLog, sdlSet, ret>>
    /\ UNCHANGED <<auxVars, proto, callVars, ctxVars, queryVars, connVars, written, wire,
                   rdPos, streamErr, readVars>>

\* 4. if deadline, ok := ctx.Deadline(); ok { _ = stream.SetDeadline(deadline) }
SetDeadline ==
    /\ pc = "deadline"
    /\ IF hasDeadline
       THEN /\ streamLog' = Append(streamLog, Op("SetDeadline", CtxDeadline))
            /\ \E ok \in BOOLEAN : sdlSet' = ok
       ELSE UNCHANGED <<streamLog, sdlSet>>
    /\ pc' = "prepare"
    /\ UNCHANGED <<auxVars, proto, callVars, ret, ctxVars, queryVars, connVars, written, wire,
                   rdPos, streamErr, readVars>>

\* An Exchange that does not look at the errors of NewMsg and Pack.
PrepareIgnoresErrors ==
    /\ pc = "prepare"
    /\ LET c == Clone(heap, query)
           h == [c.heap EXCEPT ![c.addr] = MutateQuery(proto, @)]
           m == NewMsg(h[c.addr])
       IN  /\ heap' = h
           /\ query' = c.addr
           /\ queryMsg' = m
           /\ dst' = newStreamMsgFrame(Pack(m))
           /\ pc' = "write"
           /\ UNCHANGED ret
    /\ UNCHANGED <<auxVars, proto, callVars, ctxVars, orig, connVars, streamVars, br,
                   want, rawResp>>

\* An Exchange that keeps, for ParseResponse, the message of the caller's
\* query as it came, and sends the message of the mutated clone.
PrepareKeepsOriginalMsg ==
    /\ pc = "prepare"
    /\ LET c == Clone(heap, query)
           h == [c.heap EXCEPT ![c.addr] = MutateQuery(proto, @)]
           m == NewMsg(h[c.addr])
       IN  /\ heap' = h
           /\ query' = c.addr
           /\ IF NewMsgFails(h[c.addr])
              THEN /\ ret' = Fail("dnscodec: invalid name")
                   /\ pc' = "deferStream"
                   /\ UNCHANGED <<queryMsg, dst>>
              ELSE /\ queryMsg' = NewMsg(heap[query])
                   /\ IF PackFails(m)
                      THEN /\ ret' = Fail("dns: pack failed")
                           /\ pc' = "deferStream"
                           /\ UNCHANGED dst
                      ELSE /\ dst' = newStreamMsgFrame(Pack(m))
                           /\ pc' = "write"
                           /\ UNCHANGED ret
    /\ UNCHANGED <<auxVars, proto, callVars, ctxVars, orig, connVars, streamVars, br,
                   want, rawResp>>

\* 5. and 6. query = query.Clone(); MutateQuery; NewMsg; Pack;
\* newStreamMsgFrame.  The frame waits in written's place for step 7.
Prepare ==
    /\ pc = "prepare"
    /\ LET c == Clone(heap, query)
           h == [c.heap EXCEPT ![c.addr] = MutateQuery(proto, @)]
           m == NewMsg(h[c.addr])
       IN  /\ heap' = h
           /\ query' = c.addr
           /\ IF NewMsgFails(h[c.addr])
              THEN /\ ret' = Fail("dnscodec: invalid name")
                   /\ pc' = "deferStream"
                   /\ UNCHANGED <<queryMsg, dst>>
              ELSE /\ queryMsg' = m
                   /\ IF PackFails(m)
                      THEN /\ ret' = Fail("dns: pack failed")
                           /\ pc' = "deferStream"
                           /\ UNCHANGED dst
                      ELSE IF newStreamMsgFramePanics(Pack(m))
                      THEN /\ ret' = Fail("panic")
                           /\ pc' = "deferStream"
                           /\ UNCHANGED dst
                      ELSE /\ dst' = newStreamMsgFrame(Pack(m))
                           /\ pc' = "write"
                           /\ UNCHANGED ret
    /\ UNCHANGED <<auxVars, proto, callVars, ctxVars, orig, connVars, streamVars, br, want, rawResp>>

\* An Exchange that goes on to read after a failed Write.
WriteIgnoresError ==
    /\ pc = "write"
    /\ \E e \in StreamWriteOutcomes :
        /\ streamLog' = Append(streamLog,
                               IF e = "nil" THEN Op("Write", Len(dst))
                               ELSE Op("WriteErr", 0))
        /\ written' = IF e = "nil" THEN dst ELSE written
        /\ writeErr' = e
    /\ pc' = "halfclose"
    /\ UNCHANGED <<auxVars, proto, connLog, ret, ctxVars, queryVars, connVars, sdlSet,
                   wire, rdPos, streamErr, readVars>>

\* 7. stream.Write(rawQueryFrame)
Write ==
    /\ pc = "write"
    /\ \E e \in StreamWriteOutcomes :
        IF e = "nil"
        THEN /\ streamLog' = Append(streamLog, Op("Write", Len(dst)))
             /\ written' = dst
             /\ pc' = "halfclose"
             /\ UNCHANGED <<ret, writeErr>>
        ELSE /\ streamLog' = Append(streamLog, Op("WriteErr", 0))
             /\ writeErr' = e
             /\ ret' = Fail(e)
             /\ pc' = "deferStream"
             /\ UNCHANGED written
    /\ UNCHANGED <<auxVars, proto, connLog, ctxVars, queryVars, connVars, sdlSet, wire, rdPos,
                   streamErr, readVars>>

\* An Exchange that goes on to read without closing the stream.
HalfCloseSkipped ==
    /\ pc = "halfclose"
    /\ br' = EmptyReader
    /\ dst' = <<>>
    /\ want' = 2
    /\ pc' = "readHeader"
    /\ UNCHANGED <<auxVars, proto, callVars, ret, ctxVars, queryVars, connVars, streamVars, rawResp>>

\* 8. stream.Close(), then 9. bufio.NewReader(stream); header := make([]byte, 2)
HalfClose ==
    /\ pc = "halfclose"
    /\ streamLog' = Append(streamLog, Op("Close", 0))
    /\ br' = EmptyReader
    /\ dst' = <<>>
    /\ want' = 2
    /\ pc' = "readHeader"
    /\ UNCHANGED <<auxVars, proto, callVars, ret, ctxVars, queryVars, connVars, sdlSet, written,
                   wire, rdPos, streamErr, rawResp>>

\* A length read with the low byte first.
HeaderLengthLE(header) == header[2] * 256 + header[1]

\* length := int(header[0])<<8 | int(header[1])
HeaderLength(header) == header[1] * 256 + header[2]

\* What one iteration of io.ReadFull's loop leaves in the stream and reader.
ReadEffects(r) ==
    /\ br' = r.b
    /\ IF r.used
       THEN /\ streamLog' = Append(streamLog, Op("Read", 0))
            /\ rdPos' = rdPos + r.n
            /\ streamErr' = IF streamErr = "nil" THEN r.serr ELSE streamErr
       ELSE UNCHANGED <<streamLog, rdPos, streamErr>>

\* An Exchange that refuses a response longer than the query's MaxSize.
ReadHeaderEnforcesMaxSize ==
    /\ pc = "readHeader"
    /\ \E o \in (IF BufioNeedsStream(br)
                 THEN StreamReadOutcomes(BufioCap(want - Len(dst)))
                 ELSE {NoOutcome}) :
        LET r == ReadFullIter(br, dst, want, o)
        IN  /\ ReadEffects(r)
            /\ IF r.loops
               THEN /\ dst' = r.dst
                    /\ UNCHANGED <<pc, ret, want>>
               ELSE IF r.err # "nil"
               THEN /\ ret' = Fail(r.err)
                    /\ pc' = "deferStream"
                    /\ dst' = r.dst
                    /\ UNCHANGED want
               ELSE /\ want' = HeaderLength(Filled(r.dst, 2))
                    /\ dst' = <<>>
                    /\ IF HeaderLength(Filled(r.dst, 2)) > heap[query].MaxSize
                       THEN pc' = "deferStream" /\ ret' = Fail("response too large")
                       ELSE pc' = "readBody" /\ UNCHANGED ret
    /\ UNCHANGED <<auxVars, proto, callVars, ctxVars, queryVars, connVars, sdlSet, written, wire,
                   rawResp>>

\* 9. io.ReadFull(br, header), one iteration of its loop at a time, then
\* length := int(header[0])<<8 | int(header[1]); rawResp := make([]byte, length)
ReadHeader ==
    /\ pc = "readHeader"
    /\ \E o \in (IF BufioNeedsStream(br)
                 THEN StreamReadOutcomes(BufioCap(want - Len(dst)))
                 ELSE {NoOutcome}) :
        LET r == ReadFullIter(br, dst, want, o)
        IN  /\ ReadEffects(r)
            /\ IF r.loops
               THEN /\ dst' = r.dst
                    /\ UNCHANGED <<pc, ret, want>>
               ELSE IF r.err # "nil"
               THEN /\ ret' = Fail(r.err)
                    /\ pc' = "deferStream"
                    /\ dst' = r.dst
                    /\ UNCHANGED want
               ELSE /\ want' = HeaderLength(Filled(r.dst, 2))
                    /\ dst' = <<>>
                    /\ pc' = "readBody"
                    /\ UNCHANGED ret
    /\ UNCHANGED <<auxVars, proto, callVars, ctxVars, queryVars, connVars, sdlSet, written, wire,
                   rawResp>>

\* 9. io.ReadFull(br, rawResp): it returns at once when rawResp is empty.
ReadBody ==
    /\ pc = "readBody"
    /\ IF Len(dst) >= want
       THEN /\ rawResp' = Filled(dst, want)
            /\ pc' = "decode"
            /\ UNCHANGED <<ret, dst, br, streamLog, rdPos, streamErr>>
       ELSE \E o \in (IF BufioNeedsStream(br)
                      THEN StreamReadOutcomes(BufioCap(want - Len(dst)))
                      ELSE {NoOutcome}) :
            LET r == ReadFullIter(br, dst, want, o)
            IN  /\ ReadEffects(r)
                /\ dst' = r.dst
                /\ IF r.loops
                   THEN UNCHANGED <<pc, ret, rawResp>>
                   ELSE IF r.err # "nil"
                   THEN /\ ret' = Fail(r.err)
                        /\ pc' = "deferStream"
                        /\ UNCHANGED rawResp
                   ELSE /\ rawResp' = Filled(r.dst, want)
                        /\ pc' = "decode"
                        /\ UNCHANGED ret
    /\ UNCHANGED <<auxVars, proto, callVars, ctxVars, queryVars, connVars, sdlSet, written, wire,
                   want>>

\* An Exchange that returns whatever unpacks, without ParseResponse.
DecodeSkipsParse ==
    /\ pc = "decode"
    /\ ret' = IF UnpackFails(rawResp) THEN Fail("dns: unpack failed")
              ELSE [resp |-> <<Unpack(rawResp)>>, err |-> "nil"]
    /\ pc' = "deferStream"
    /\ UNCHANGED <<auxVars, proto, callVars, ctxVars, queryVars, connVars, streamVars,
                   readVars>>

\* 10. respMsg.Unpack(rawResp); dnscodec.ParseResponse(queryMsg, respMsg)
Decode ==
    /\ pc = "decode"
    /\ ret' = IF UnpackFails(rawResp) THEN Fail("dns: unpack failed")
              ELSE IF ParseResponseFails(queryMsg, Unpack(rawResp))
              THEN Fail("dnscodec.ErrInvalidResponse")
              ELSE [resp |-> <<Unpack(rawResp)>>, err |-> "nil"]
    /\ pc' = "deferStream"
    /\ UNCHANGED <<auxVars, proto, callVars, ctxVars, queryVars, connVars, streamVars, readVars>>

\* An Exchange without the deferred stream.Close().
DeferStreamCloseSkipped ==
    /\ pc = "deferStream"
    /\ pc' = "deferCancel"
    /\ UNCHANGED <<auxVars, proto, callVars, ret, ctxVars, queryVars, connVars,
                   streamVars, readVars>>

\* A deferred close that leaves alone a stream that was closed already.
DeferStreamCloseUnlessClosed ==
    /\ pc = "deferStream"
    /\ streamLog' = IF \E i \in DOMAIN streamLog : streamLog[i].op = "Close"
                    THEN streamLog
                    ELSE Append(streamLog, Op("Close", 0))
    /\ pc' = "deferCancel"
    /\ UNCHANGED <<auxVars, proto, callVars, ret, ctxVars, queryVars, connVars, sdlSet,
                   written, wire, rdPos, streamErr, readVars>>

\* An Exchange whose deferred cancel() runs ahead of the deferred
\* stream.Close().
DeferStreamCloseAfterCancel ==
    /\ pc = "deferStream"
    /\ IF ~cancelCalled
       THEN /\ cancelCalled' = TRUE
            /\ UNCHANGED <<pc, streamLog>>
       ELSE /\ streamLog' = Append(streamLog, Op("Close", 0))
            /\ pc' = "deferCancel"
            /\ UNCHANGED cancelCalled
    /\ UNCHANGED <<auxVars, proto, callVars, ret, hasDeadline, parentDone, cancelPc,
                   queryVars, connVars, sdlSet, written, wire, rdPos, streamErr, readVars>>

\* The deferred stream.Close() runs first.
DeferStreamClose ==
    /\ pc = "deferStream"
    /\ streamLog' = Append(streamLog, Op("Close", 0))
    /\ pc' = "deferCancel"
    /\ UNCHANGED <<auxVars, proto, callVars, ret, ctxVars, queryVars, connVars, sdlSet, written,
                   wire, rdPos, streamErr, readVars>>

\* An Exchange that also closes the connection itself as it returns.
DeferCancelAndClose ==
    /\ pc = "deferCancel"
    /\ cancelCalled' = TRUE
    /\ conn' = ConnClose(proto, conn)
    /\ pc' = "done"
    /\ UNCHANGED <<auxVars, proto, callVars, ret, hasDeadline, parentDone, cancelPc, queryVars,
                   wpc, streamVars, readVars>>

\* An Exchange that returns without calling cancel.
DeferNoCancel ==
    /\ pc = "deferCancel"
    /\ pc' = "done"
    /\ UNCHANGED <<auxVars, proto, callVars, ret, ctxVars, queryVars, connVars, streamVars, readVars>>

\* The deferred cancel() runs last, and Exchange returns.
DeferCancel ==
    /\ pc = "deferCancel"
    /\ cancelCalled' = TRUE
    /\ pc' = "done"
    /\ UNCHANGED <<auxVars, proto, callVars, ret, hasDeadline, parentDone, cancelPc, queryVars,
                   connVars, streamVars, readVars>>

\* The caller cancels its context while Exchange runs.
Cancel ==
    /\ pc # "done"
    /\ parentDone = "no"
    /\ parentDone' = "canceled"
    /\ cancelPc' = pc
    /\ UNCHANGED <<auxVars, proto, callVars, pc, ret, hasDeadline, cancelCalled, queryVars,
                   connVars, streamVars, readVars>>

\* The deadline of the caller's context passes while Exchange runs.
DeadlineExpire ==
    /\ pc # "done"
    /\ hasDeadline
    /\ parentDone = "no"
    /\ parentDone' = "deadline"
    /\ cancelPc' = pc
    /\ UNCHANGED <<auxVars, proto, callVars, pc, ret, hasDeadline, cancelCalled, queryVars,
                   connVars, streamVars, readVars>>

\* ------------------------------------------- the opener's Close, raced

Callers == 1..NumCallers

\* What the underlying close primitive returns on its k-th call: ocRes the
\* first time; after that net.Conn.Close reports the closed connection.
UnderlyingClose(k) ==
    IF k = 1 THEN ocRes
    ELSE IF ocKind = "quic" THEN "nil" ELSE "net.ErrClosed"

Returns(c, e, path) ==
    /\ ocRets' = [ocRets EXCEPT ![c] = Append(@, [err |-> e, path |-> path])]
    /\ ocPc' = [ocPc EXCEPT ![c] = "idle"]

OnceIdle ==
    /\ ocKind = "none"
    /\ ocDone = FALSE
    /\ ocMu = 0
    /\ ocCalls = 0
    /\ ocRes = "nil"
    /\ ocPc = [c \in Callers |-> "idle"]
    /\ ocErr = [c \in Callers |-> "nil"]
    /\ ocRets = [c \in Callers |-> <<>>]

OnceInit ==
    /\ ocKind \in Protocols
    /\ ocDone = FALSE
    /\ ocMu = 0
    /\ ocCalls = 0
    /\ ocRes \in {"nil", "close failed"}
    /\ ocPc = [c \in Callers |-> "idle"]
    /\ ocErr = [c \in Callers |-> "nil"]
    /\ ocRets = [c \in Callers |-> <<>>]

\* A goroutine calls the opener's Close: func (q) Close() (err error).
CloseCall(c) ==
    /\ ocPc[c] = "idle"
    /\ Len(ocRets[c]) < MaxCloseCalls
    /\ ocErr' = [ocErr EXCEPT ![c] = "nil"]
    /\ ocPc' = [ocPc EXCEPT ![c] = IF ocKind = "quic" THEN "load" ELSE "close"]
    /\ UNCHANGED <<exVars, par, st, ew, fr, mq, ocKind, ocDone, ocMu, ocCalls, ocRes, ocRets>>

\* A TCP or TLS opener whose Close closes the connection the first time only.
ConnCloseLatched(c) ==
    /\ ocPc[c] = "close"
    /\ IF ocCalls = 0
       THEN /\ ocCalls' = ocCalls + 1
            /\ Returns(c, UnderlyingClose(ocCalls + 1), "direct")
       ELSE /\ UNCHANGED ocCalls
            /\ Returns(c, "nil", "direct")
    /\ UNCHANGED <<exVars, par, st, ew, fr, mq, ocKind, ocDone, ocMu, ocRes, ocErr>>

\* tcpStreamConn.Close, tlsStreamConn.Close: return s.conn.Close()
ConnCloseDirect(c) ==
    /\ ocPc[c] = "close"
    /\ ocCalls' = ocCalls + 1
    /\ Returns(c, UnderlyingClose(ocCalls + 1), "direct")
    /\ UNCHANGED <<exVars, par, st, ew, fr, mq, ocKind, ocDone, ocMu, ocRes, ocErr>>

\* sync.Once.Do: if o.done.Load() == 0 { o.doSlow(f) }
OnceLoad(c) ==
    /\ ocPc[c] = "load"
    /\ IF ocDone
       THEN Returns(c, ocErr[c], "fast")
       ELSE /\ ocPc' = [ocPc EXCEPT ![c] = "lock"]
            /\ UNCHANGED ocRets
    /\ UNCHANGED <<exVars, par, st, ew, fr, mq, ocKind, ocDone, ocMu, ocCalls, ocRes, ocErr>>

\* doSlow: o.m.Lock()
OnceLock(c) ==
    /\ ocPc[c] = "lock"
    /\ ocMu = 0
    /\ ocMu' = c
    /\ ocPc' = [ocPc EXCEPT ![c] = "check"]
    /\ UNCHANGED <<exVars, par, st, ew, fr, mq, ocKind, ocDone, ocCalls, ocRes, ocErr, ocRets>>

\* A doSlow that does not look at done again under the lock.
OnceCheckBlind(c) ==
    /\ ocPc[c] = "check"
    /\ ocPc' = [ocPc EXCEPT ![c] = "run"]
    /\ UNCHANGED <<exVars, par, st, ew, fr, mq, ocKind, ocDone, ocMu, ocCalls, ocRes, ocErr, ocRets>>

\* doSlow: if o.done.Load() == 0 { defer o.done.Store(1); f() }
OnceCheck(c) ==
    /\ ocPc[c] = "check"
    /\ ocPc' = [ocPc EXCEPT ![c] = IF ocDone THEN "unlockSkipped" ELSE "run"]
    /\ UNCHANGED <<exVars, par, st, ew, fr, mq, ocKind, ocDone, ocMu, ocCalls, ocRes, ocErr, ocRets>>

\* A Close whose err is one variable shared by all its callers.
OnceRunSharedErr(c) ==
    /\ ocPc[c] = "run"
    /\ ocCalls' = ocCalls + 1
    /\ ocErr' = [d \in Callers |-> UnderlyingClose(ocCalls + 1)]
    /\ ocPc' = [ocPc EXCEPT ![c] = "store"]
    /\ UNCHANGED <<exVars, par, st, ew, fr, mq, ocKind, ocDone, ocMu, ocRes, ocRets>>

\* f(): err = q.qconn.CloseWithError(0, "")
OnceRun(c) ==
    /\ ocPc[c] = "run"
    /\ ocCalls' = ocCalls + 1
    /\ ocErr' = [ocErr EXCEPT ![c] = UnderlyingClose(ocCalls + 1)]
    /\ ocPc' = [ocPc EXCEPT ![c] = "store"]
    /\ UNCHANGED <<exVars, par, st, ew, fr, mq, ocKind, ocDone, ocMu, ocRes, ocRets>>

\* The deferred o.done.Store(1)
OnceStore(c) ==
    /\ ocPc[c] = "store"
    /\ ocDone' = TRUE
    /\ ocPc' = [ocPc EXCEPT ![c] = "unlockRan"]
    /\ UNCHANGED <<exVars, par, st, ew, fr, mq, ocKind, ocMu, ocCalls, ocRes, ocErr, ocRets>>

\* The deferred o.m.Unlock(), and Close returns err.
OnceUnlock(c) ==
    /\ ocPc[c] \in {"unlockRan", "unlockSkipped"}
    /\ ocMu' = 0
    /\ Returns(c, ocErr[c], IF ocPc[c] = "unlockRan" THEN "ran" ELSE "skipped")
    /\ UNCHANGED <<exVars, par, st, ew, fr, mq, ocKind, ocDone, ocCalls, ocRes, ocErr>>

\* ------------------------------------------------ framing one message

\* The packed message of length n with contents chosen by seed.
PackedMsg(n, seed) == [i \in 1..n |-> (seed * 85 + i) % 256]

\* The lengths framed: the short ones, and those around the byte
\* boundaries of the 16-bit prefix.
FrameLens ==
    (0..MaxSmallLen)
    \cup {255, 256, 257, 511, 512, 4096, MaxUint16 - 1, MaxUint16, MaxUint16 + 1}

FrameIdle ==
    fr = [len |-> 0, seed |-> 0, pc |-> "idle", frame |-> <<>>, err |-> "unset",
          writes |-> <<>>]

FrameInit ==
    \E n \in FrameLens, sd \in 0..MaxSeed :
        fr = [len |-> n, seed |-> sd, pc |-> "frame", frame |-> <<>>,
              err |-> "unset", writes |-> <<>>]

\* 6. rawQueryFrame, err := newStreamMsgFrame(rawQuery)
FrameMsg ==
    /\ fr.pc = "frame"
    /\ ~newStreamMsgFramePanics(PackedMsg(fr.len, fr.seed))
    /\ fr' = [fr EXCEPT !.frame = newStreamMsgFrame(PackedMsg(fr.len, fr.seed)),
                        !.err = "nil", !.pc = "write"]
    /\ UNCHANGED <<exVars, par, st, ew, ocVars, mq>>

\* A newStreamMsgFrame that returns an error for a message that is too long.
FramePanicReturnsError ==
    /\ fr.pc = "frame"
    /\ newStreamMsgFramePanics(PackedMsg(fr.len, fr.seed))
    /\ fr' = [fr EXCEPT !.err = "message too long", !.pc = "failed"]
    /\ UNCHANGED <<exVars, par, st, ew, ocVars, mq>>

\* 6. newStreamMsgFrame panics on a message longer than math.MaxUint16.
FramePanic ==
    /\ fr.pc = "frame"
    /\ newStreamMsgFramePanics(PackedMsg(fr.len, fr.seed))
    /\ fr' = [fr EXCEPT !.pc = "panic"]
    /\ UNCHANGED <<exVars, par, st, ew, ocVars, mq>>

\* 7. stream.Write(rawQueryFrame), which succeeds or fails.
FrameWrite ==
    /\ fr.pc = "write"
    /\ \E ok \in BOOLEAN :
        fr' = [fr EXCEPT !.writes = Append(@, fr.frame),
                         !.pc = IF ok THEN "sent" ELSE "failed"]
    /\ UNCHANGED <<exVars, par, st, ew, ocVars, mq>>

\* ------------------------------------------------- MutateQuery alone

\* The queries MutateQuery is applied to.
MutateInputs ==
    {[ID |-> id, Flags |-> f, MaxSize |-> sz, Name |-> GoodName, Type |-> t] :
        id \in {0, 1, 12345, MaxUint16}, f \in 0..MaxFlags,
        sz \in {512, 1232, QueryMaxResponseSizeTCP, MaxUint16}, t \in {1, 28}}

MutateIdle == mq = [p |-> "none", in |-> NoQuery, out |-> NoQuery, n |-> 0]

MutateInit ==
    \E p \in Protocols, q \in MutateInputs :
        mq = [p |-> p, in |-> q, out |-> q, n |-> 0]

\* opener.MutateQuery(query) on a TCP opener
ApplyTCP ==
    /\ mq.p = "tcp"
    /\ mq.n < MaxApply
    /\ mq' = [mq EXCEPT !.out = MutateQueryTCP(@), !.n = @ + 1]
    /\ UNCHANGED <<exVars, par, st, ew, ocVars, fr>>

\* opener.MutateQuery(query) on a TLS opener
ApplyTLS ==
    /\ mq.p = "tls"
    /\ mq.n < MaxApply
    /\ mq' = [mq EXCEPT !.out = MutateQueryTLS(@), !.n = @ + 1]
    /\ UNCHANGED <<exVars, par, st, ew, ocVars, fr>>

\* opener.MutateQuery(query) on a QUIC opener
ApplyQUIC ==
    /\ mq.p = "quic"
    /\ mq.n < MaxApply
    /\ mq' = [mq EXCEPT !.out = MutateQueryQUIC(@), !.n = @ + 1]
    /\ UNCHANGED <<exVars, par, st, ew, ocVars, fr>>

\* ------------------------------- ExchangeWithStreamOpener and its hooks

\* What a hook does: there is none, it reads its argument, or it flips the
\* first byte of its argument.
HookKinds == {"unset", "look", "flip"}

\* The test hooks' p[0] ^= 0xff on a non-empty argument.
HookEffect(kind, p) ==
    IF kind = "flip" /\ Len(p) > 0 THEN [p EXCEPT ![1] = 255 - @] ELSE p

\* A hook call that hands the hook the live buffer itself.
ObserveShared(kind, live, seen) ==
    IF kind = "unset" THEN [live |-> live, seen |-> seen]
    ELSE [live |-> HookEffect(kind, live), seen |-> Append(seen, live)]

\* if hook != nil { hook(copy of live) }: the buffer afterwards, and the
\* arguments the hook has been called with.
Observe(kind, live, seen) ==
    IF kind = "unset" THEN [live |-> live, seen |-> seen]
    ELSE [live |-> live, seen |-> Append(seen, live)]

\* What the stream of a call does: it works, or OpenStream, Write, the read
\* of the prefix or the read of the payload fails.
Faults == {"none", "open", "write", "header", "body"}

NewRun(start) ==
    [pc |-> start, log |-> <<>>, queryMsg |-> NoMsg, rawQuery |-> <<>>,
     written |-> <<>>, rawResp |-> <<>>, decoded |-> <<>>,
     seenQ |-> <<>>, seenR |-> <<>>, ret |-> NoRet]

NoHooks == [q |-> "unset", r |-> "unset"]

OpenerIdle ==
    ew = [in |-> [p |-> "none", q |-> NoQuery, hasDeadline |-> FALSE,
                  payload |-> <<>>, fault |-> "none", hookFirst |-> FALSE],
          hooks |-> [base |-> NoHooks, hooked |-> NoHooks],
          call |-> "none", closes |-> 0,
          runs |-> [base |-> NewRun("idle"), hooked |-> NewRun("idle")]]

\* The inputs of the two calls: a query that encodes with any answer or any
\* fault of the stream, or a query that does not encode.
OpenerInputs ==
    {[p |-> p, q |-> NewQuery(GoodName, 258, 0), hasDeadline |-> d,
      payload |-> pl, fault |-> "none", hookFirst |-> o] :
        p \in Protocols, d \in BOOLEAN, pl \in Payloads, o \in BOOLEAN}
    \cup
    {[p |-> p, q |-> NewQuery(GoodName, 258, 0), hasDeadline |-> d,
      payload |-> <<1, 2, 1>>, fault |-> f, hookFirst |-> o] :
        p \in Protocols, d \in BOOLEAN, f \in Faults, o \in BOOLEAN}
    \cup
    {[p |-> p, q |-> NewQuery(n, 258, 0), hasDeadline |-> d,
      payload |-> <<1, 2, 1>>, fault |-> "none", hookFirst |-> o] :
        p \in Protocols, d \in BOOLEAN, n \in {BadName, LongLabelName},
        o \in BOOLEAN}

\* Two calls with the same query on streams that behave alike: the first
\* with no hook set, the second with any hooks, on an opener that no one
\* has closed.
OpenerInit ==
    \E i \in OpenerInputs, hq \in HookKinds, hr \in HookKinds :
        ew = [in |-> i,
              hooks |-> [base |-> NoHooks, hooked |-> [q |-> hq, r |-> hr]],
              call |-> "base", closes |-> 0,
              runs |-> [base |-> NewRun("open"), hooked |-> NewRun("idle")]]

\* The call that is running, and the state with that call's state replaced.
Cur == ew.runs[ew.call]
SetRun(r) == [ew EXCEPT !.runs[ew.call] = r]
Logged(r, op) == Append(r.log, op)

EwRunning == ew.call # "none"

\* The SetDeadline calls a call has made on its stream, in order.
EwDeadlines(r) == SelectSeq(r.log, LAMBDA o : o.op = "SetDeadline")

\* 3. opener.OpenStream()
EwOpenStream ==
    /\ EwRunning /\ Cur.pc = "open"
    /\ ew' = SetRun(IF ew.in.fault = "open" \/ (ew.closes > 0 /\ ew.in.p = "quic")
                    THEN [Cur EXCEPT !.ret = Fail("open stream failed"),
                                     !.pc = "done"]
                    ELSE [Cur EXCEPT !.pc = "deadline"])
    /\ UNCHANGED <<exVars, par, st, ocVars, fr, mq>>

\* 4. With a deadline in ctx, stream.SetDeadline(deadline).
EwSetDeadline ==
    /\ EwRunning /\ Cur.pc = "deadline"
    /\ ew' = SetRun(IF ew.in.hasDeadline
                    THEN [Cur EXCEPT !.log = Logged(Cur, Op("SetDeadline", 1)),
                                     !.pc = "prepare"]
                    ELSE [Cur EXCEPT !.pc = "prepare"])
    /\ UNCHANGED <<exVars, par, st, ocVars, fr, mq>>

\* The step that follows packing, the hook and the Write: the hook sees the
\* query before or after it is written.
EwAfter(step) ==
    CASE step = "prepare" -> IF ew.in.hookFirst THEN "observeQuery" ELSE "write"
      [] step = "observeQuery" -> IF ew.in.hookFirst THEN "write" ELSE "halfclose"
      [] step = "write" -> IF ew.in.hookFirst THEN "halfclose" ELSE "observeQuery"

\* 5. Clone, MutateQuery, NewMsg, Pack.
EwPrepare ==
    /\ EwRunning /\ Cur.pc = "prepare"
    /\ LET q == MutateQuery(ew.in.p, ew.in.q)
           m == NewMsg(q)
       IN  ew' = SetRun(
             IF NewMsgFails(q)
             THEN [Cur EXCEPT !.ret = Fail("dnscodec: invalid name"),
                              !.pc = "deferDeadline"]
             ELSE IF PackFails(m)
             THEN [Cur EXCEPT !.ret = Fail("dns: pack failed"),
                              !.queryMsg = m, !.pc = "deferDeadline"]
             ELSE [Cur EXCEPT !.queryMsg = m, !.rawQuery = Pack(m),
                              !.pc = EwAfter("prepare")])
    /\ UNCHANGED <<exVars, par, st, ocVars, fr, mq>>

\* An ObserveRawQuery call that is given the frame, prefix included.
EwObserveQueryFrame ==
    /\ EwRunning /\ Cur.pc = "observeQuery"
    /\ LET o == Observe(ew.hooks[ew.call].q, newStreamMsgFrame(Cur.rawQuery),
                        Cur.seenQ)
       IN  ew' = SetRun([Cur EXCEPT !.seenQ = o.seen,
                                    !.pc = EwAfter("observeQuery")])
    /\ UNCHANGED <<exVars, par, st, ocVars, fr, mq>>

\* 6. ObserveRawQuery, when set, on a private copy of the packed query.
EwObserveQuery ==
    /\ EwRunning /\ Cur.pc = "observeQuery"
    /\ LET o == Observe(ew.hooks[ew.call].q, Cur.rawQuery, Cur.seenQ)
       IN  ew' = SetRun([Cur EXCEPT !.rawQuery = o.live, !.seenQ = o.seen,
                                    !.pc = EwAfter("observeQuery")])
    /\ UNCHANGED <<exVars, par, st, ocVars, fr, mq>>

\* 6. stream.Write(newStreamMsgFrame(rawQuery))
EwWrite ==
    /\ EwRunning /\ Cur.pc = "write"
    /\ ew' = SetRun(
         IF ew.in.fault = "write" \/ ew.closes > 0
         THEN [Cur EXCEPT !.log = Logged(Cur, Op("WriteErr", 0)),
                          !.ret = Fail(IF ew.closes > 0 THEN "net.ErrClosed"
                                       ELSE "EPIPE"),
                          !.pc = "deferDeadline"]
         ELSE [Cur EXCEPT !.log = Logged(Cur, Op("Write", Len(Cur.rawQuery) + 2)),
                          !.written = newStreamMsgFrame(Cur.rawQuery),
                          !.pc = EwAfter("write")])
    /\ UNCHANGED <<exVars, par, st, ocVars, fr, mq>>

\* 7. stream.Close()
EwHalfClose ==
    /\ EwRunning /\ Cur.pc = "halfclose"
    /\ ew' = SetRun([Cur EXCEPT !.log = Logged(Cur, Op("Close", 0)),
                                !.pc = "read"])
    /\ UNCHANGED <<exVars, par, st, ocVars, fr, mq>>

\* 8. Read the prefix, then the payload it announces.
EwRead ==
    /\ EwRunning /\ Cur.pc = "read"
    /\ ew' = SetRun(
         CASE ew.in.fault = "header" ->
                [Cur EXCEPT !.log = Logged(Cur, Op("Read", 0)),
                            !.ret = Fail("io.EOF"), !.pc = "deferDeadline"]
           [] ew.in.fault = "body" ->
                [Cur EXCEPT !.log = Logged(Cur, Op("Read", 0)),
                            !.ret = Fail("io.ErrUnexpectedEOF"),
                            !.pc = "deferDeadline"]
           [] OTHER ->
                [Cur EXCEPT !.log = Logged(Cur, Op("Read", 0)),
                            !.rawResp = ew.in.payload,
                            !.pc = "observeResponse"])
    /\ UNCHANGED <<exVars, par, st, ocVars, fr, mq>>

\* 9. ObserveRawResponse, when set, on a private copy of the payload.
EwObserveResponse ==
    /\ EwRunning /\ Cur.pc = "observeResponse"
    /\ LET o == Observe(ew.hooks[ew.call].r, Cur.rawResp, Cur.seenR)
       IN  ew' = SetRun([Cur EXCEPT !.rawResp = o.live, !.seenR = o.seen,
                                    !.pc = "decode"])
    /\ UNCHANGED <<exVars, par, st, ocVars, fr, mq>>

\* 9. Unpack and ParseResponse.
EwDecode ==
    /\ EwRunning /\ Cur.pc = "decode"
    /\ ew' = SetRun(
         [Cur EXCEPT
            !.decoded = Cur.rawResp,
            !.ret = IF UnpackFails(Cur.rawResp) THEN Fail("dns: unpack failed")
                    ELSE IF ParseResponseFails(Cur.queryMsg, Unpack(Cur.rawResp))
                    THEN Fail("dnscodec.ErrInvalidResponse")
                    ELSE [resp |-> <<Unpack(Cur.rawResp)>>, err |-> "nil"],
            !.pc = "deferDeadline"])
    /\ UNCHANGED <<exVars, par, st, ocVars, fr, mq>>

\* A call that clears the deadline only when it returns a response.
EwClearDeadlineOnSuccess ==
    /\ EwRunning /\ Cur.pc = "deferDeadline"
    /\ ew' = SetRun(IF ew.in.hasDeadline /\ Cur.ret.err = "nil"
                    THEN [Cur EXCEPT !.log = Logged(Cur, Op("SetDeadline", 0)),
                                     !.pc = "deferClose"]
                    ELSE [Cur EXCEPT !.pc = "deferClose"])
    /\ UNCHANGED <<exVars, par, st, ocVars, fr, mq>>

\* On return, with a deadline in ctx: stream.SetDeadline(time.Time{}).
EwClearDeadline ==
    /\ EwRunning /\ Cur.pc = "deferDeadline"
    /\ ew' = SetRun(IF ew.in.hasDeadline
                    THEN [Cur EXCEPT !.log = Logged(Cur, Op("SetDeadline", 0)),
                                     !.pc = "deferClose"]
                    ELSE [Cur EXCEPT !.pc = "deferClose"])
    /\ UNCHANGED <<exVars, par, st, ocVars, fr, mq>>

\* A call that closes the opener along with the stream when it returns.
EwDeferCloseOpener ==
    /\ EwRunning /\ Cur.pc = "deferClose"
    /\ ew' = [SetRun([Cur EXCEPT !.log = Logged(Cur, Op("Close", 0)),
                                 !.pc = "done"])
                EXCEPT !.closes = @ + 1]
    /\ UNCHANGED <<exVars, par, st, ocVars, fr, mq>>

\* On return: stream.Close().
EwDeferClose ==
    /\ EwRunning /\ Cur.pc = "deferClose"
    /\ ew' = SetRun([Cur EXCEPT !.log = Logged(Cur, Op("Close", 0)),
                                !.pc = "done"])
    /\ UNCHANGED <<exVars, par, st, ocVars, fr, mq>>

\* The caller sets its hooks and calls again on the same opener.
EwCallAgain ==
    /\ ew.call = "base" /\ Cur.pc = "done"
    /\ ew' = [ew EXCEPT !.call = "hooked", !.runs["hooked"] = NewRun("open")]
    /\ UNCHANGED <<exVars, par, st, ocVars, fr, mq>>

\* ------------------------------------------------------ specifications

\* ------------------------------------- concurrent calls on one Transport

\* How many Exchange calls run on the Transport.
NumCalls == 2
Calls == 1 .. NumCalls

\* The endpoints a Transport can be constructed with.
Endpoints == {"192.0.2.1:853", "192.0.2.2:853"}

\* An Exchange call at entry: its own context, no connection, no watcher.
NewCall ==
    [pc |-> "dial", parentDone |-> FALSE, cancelCalled |-> FALSE, conn |-> 0,
     wpc |-> "none", ret |-> "none", dialed |-> <<>>]

\* What DialContext returns: a connection no one else holds.
ParConn(i, address) ==
    [by |-> i, ep |-> address, closed |-> FALSE, closers |-> {}, io |-> {}]

ParIdle == par = [endpoint |-> "none", calls |-> <<>>, conns |-> <<>>]

\* newTransportStream(dialer, endpoint), then NumCalls calls of Exchange.
ParInit ==
    \E e \in Endpoints :
        par = [endpoint |-> e, calls |-> [i \in Calls |-> NewCall], conns |-> <<>>]

\* The context derived by context.WithCancel(ctx) in call i is done.
ParCtxDone(i) == par.calls[i].parentDone \/ par.calls[i].cancelCalled

\* An operation of call i on its connection: fails on a closed connection.
ParConnOp(i, next) ==
    LET c == par.calls[i]
    IN  IF par.conns[c.conn].closed
        THEN par' = [par EXCEPT !.calls[i].ret = "net.ErrClosed",
                                !.calls[i].pc = "return"]
        ELSE par' = [par EXCEPT !.conns[c.conn].io = @ \cup {i},
                                !.calls[i].ret = IF next = "return" THEN "nil" ELSE @,
                                !.calls[i].pc = next]

\* A Transport that keeps connections and hands an open one to the next call.
ParDialPooled(i) ==
    /\ par.calls[i].pc = "dial"
    /\ LET c == par.calls[i]
           d == Append(c.dialed, par.endpoint)
           open == {k \in DOMAIN par.conns : ~par.conns[k].closed}
       IN  \/ /\ open # {}
              /\ par' = [par EXCEPT !.calls[i] =
                             [c EXCEPT !.conn = CHOOSE k \in open : TRUE,
                                       !.pc = "spawn"]]
           \/ /\ open = {}
              /\ par' = [par EXCEPT !.conns = Append(@, ParConn(i, par.endpoint)),
                                    !.calls[i] =
                                        [c EXCEPT !.dialed = d,
                                                  !.conn = Len(par.conns) + 1,
                                                  !.pc = "spawn"]]
    /\ UNCHANGED <<exVars, st, ocVars, fr, mq, ew>>

\* 1. conn, err := dt.dialer.DialContext(ctx, dt.endpoint); return on error.
ParDial(i) ==
    /\ par.calls[i].pc = "dial"
    /\ LET c == par.calls[i]
           d == Append(c.dialed, par.endpoint)
       IN  \/ /\ c.parentDone
              /\ par' = [par EXCEPT !.calls[i] =
                             [c EXCEPT !.dialed = d, !.ret = "context canceled",
                                       !.pc = "done"]]
           \/ /\ ~c.parentDone
              /\ par' = [par EXCEPT !.calls[i] =
                             [c EXCEPT !.dialed = d, !.ret = "dial failed",
                                       !.pc = "done"]]
           \/ /\ ~c.parentDone
              /\ par' = [par EXCEPT !.conns = Append(@, ParConn(i, d[Len(d)])),
                                    !.calls[i] =
                                        [c EXCEPT !.dialed = d,
                                                  !.conn = Len(par.conns) + 1,
                                                  !.pc = "spawn"]]
    /\ UNCHANGED <<exVars, st, ocVars, fr, mq, ew>>

\* 2. ctx, cancel := context.WithCancel(ctx); defer cancel(); go func() {...}()
ParSpawn(i) ==
    /\ par.calls[i].pc = "spawn"
    /\ par' = [par EXCEPT !.calls[i].wpc = "wait", !.calls[i].pc = "open"]
    /\ UNCHANGED <<exVars, st, ocVars, fr, mq, ew>>

\* A watcher that closes the connection dialed last on the Transport.
ParWatcherShared(i) ==
    /\ par.calls[i].wpc = "wait"
    /\ ParCtxDone(i)
    /\ par' = [par EXCEPT !.conns[Len(par.conns)].closed = TRUE,
                          !.conns[Len(par.conns)].closers = @ \cup {i},
                          !.calls[i].wpc = "done"]
    /\ UNCHANGED <<exVars, st, ocVars, fr, mq, ew>>

\* The watcher of call i: <-ctx.Done(); conn.CloseWithError(quicNoError, "").
ParWatcher(i) ==
    /\ par.calls[i].wpc = "wait"
    /\ ParCtxDone(i)
    /\ par' = [par EXCEPT !.conns[par.calls[i].conn].closed = TRUE,
                          !.conns[par.calls[i].conn].closers = @ \cup {i},
                          !.calls[i].wpc = "done"]
    /\ UNCHANGED <<exVars, st, ocVars, fr, mq, ew>>

\* 3. stream, err := conn.OpenStream(): a QUIC connection that is closed
\* fails, a TCP or TLS one hands out the stream all the same.
ParOpenStream(i) ==
    /\ par.calls[i].pc = "open"
    /\ \/ ParConnOp(i, "write")
       \/ /\ par.conns[par.calls[i].conn].closed
          /\ par' = [par EXCEPT !.calls[i].pc = "write"]
    /\ UNCHANGED <<exVars, st, ocVars, fr, mq, ew>>

\* 7. stream.Write(rawQueryFrame)
ParWrite(i) ==
    /\ par.calls[i].pc = "write"
    /\ ParConnOp(i, "read")
    /\ UNCHANGED <<exVars, st, ocVars, fr, mq, ew>>

\* 9. io.ReadFull on the stream, header and body; the response is returned.
ParRead(i) ==
    /\ par.calls[i].pc = "read"
    /\ ParConnOp(i, "return")
    /\ UNCHANGED <<exVars, st, ocVars, fr, mq, ew>>

\* On return: the deferred cancel().
ParReturn(i) ==
    /\ par.calls[i].pc = "return"
    /\ par' = [par EXCEPT !.calls[i].cancelCalled = TRUE, !.calls[i].pc = "done"]
    /\ UNCHANGED <<exVars, st, ocVars, fr, mq, ew>>

\* The caller of call i cancels the context it passed.
ParCancel(i) ==
    /\ ~par.calls[i].parentDone
    /\ par' = [par EXCEPT !.calls[i].parentDone = TRUE]
    /\ UNCHANGED <<exVars, st, ocVars, fr, mq, ew>>

\* ------------------------------------- the stream of a TCP or TLS opener

\* How many calls are made on the opener and on its stream.
MaxStreamOps == 4

StreamIdle ==
    st = [kind |-> "none", conn |-> [closes |-> 0, reads |-> 0, writes |-> 0],
          log |-> <<>>]

\* NewTCPStreamOpener(conn) or NewTLSStreamOpener(conn), then OpenStream().
StreamInit ==
    \E k \in {"tcp", "tls"} :
        st = [kind |-> k, conn |-> [closes |-> 0, reads |-> 0, writes |-> 0],
              log |-> <<>>]

\* What an operation on the net.Conn returns.
StConnRet == IF st.conn.closes > 0 THEN "net.ErrClosed" ELSE "nil"

StCanCall == st.kind # "none" /\ Len(st.log) < MaxStreamOps

\* A stream whose Close closes the connection.
StStreamCloseConn ==
    /\ StCanCall
    /\ st' = [st EXCEPT !.conn.closes = @ + 1,
                        !.log = Append(@, Call("stream.Close", StConnRet))]
    /\ UNCHANGED <<exVars, par, ocVars, fr, mq, ew>>

\* tcpStream.Close, tlsStream.Close: return nil.
StStreamClose ==
    /\ StCanCall
    /\ st' = [st EXCEPT !.log = Append(@, Call("stream.Close", "nil"))]
    /\ UNCHANGED <<exVars, par, ocVars, fr, mq, ew>>

\* tcpStream.Read, tlsStream.Read: return s.conn.Read(buff).
StStreamRead ==
    /\ StCanCall
    /\ st' = [st EXCEPT !.conn.reads = @ + 1,
                        !.log = Append(@, Call("stream.Read", StConnRet))]
    /\ UNCHANGED <<exVars, par, ocVars, fr, mq, ew>>

\* tcpStream.Write, tlsStream.Write: return s.conn.Write(data).
StStreamWrite ==
    /\ StCanCall
    /\ st' = [st EXCEPT !.conn.writes = @ + 1,
                        !.log = Append(@, Call("stream.Write", StConnRet))]
    /\ UNCHANGED <<exVars, par, ocVars, fr, mq, ew>>

\* tcpStreamConn.Close, tlsStreamConn.Close: return s.conn.Close().
StOpenerClose ==
    /\ StCanCall
    /\ st' = [st EXCEPT !.conn.closes = @ + 1,
                        !.log = Append(@, Call("opener.Close", StConnRet))]
    /\ UNCHANGED <<exVars, par, ocVars, fr, mq, ew>>


\* Exchange has not been called.
ExchangeIdle ==
    /\ proto = "none"
    /\ hasDeadline = FALSE
    /\ parentDone = "no"
    /\ cancelCalled = FALSE
    /\ cancelPc = "none"
    /\ heap = [caller |-> NoQuery, clone |-> NoQuery]
    /\ orig = NoQuery
    /\ query = "caller"
    /\ queryMsg = NoMsg
    /\ pc = "idle"
    /\ ret = NoRet
    /\ wpc = "none"
    /\ conn = NewConn
    /\ streamLog = <<>>
    /\ sdlSet = FALSE
    /\ written = <<>>
    /\ wire = <<>>
    /\ rdPos = 0
    /\ streamErr = "nil"
    /\ br = EmptyReader
    /\ dst = <<>>
    /\ want = 0
    /\ rawResp = <<>>
    /\ connLog = <<>>
    /\ writeErr = "nil"

\* One Exchange, its watcher, its stream and its peer.
Init == ExchangeInit /\ OnceIdle /\ FrameIdle /\ MutateIdle /\ OpenerIdle
        /\ ParIdle /\ StreamIdle

Next ==
    \/ DialFail
    \/ DialOK
    \/ Spawn
    \/ Watcher
    \/ OpenStreamOK
    \/ OpenStreamFail
    \/ SetDeadline
    \/ Prepare
    \/ Write
    \/ HalfClose
    \/ ReadHeader
    \/ ReadBody
    \/ Decode
    \/ DeferStreamClose
    \/ DeferCancel
    \/ Cancel
    \/ DeadlineExpire

Spec == Init /\ [][Next]_vars

\* Goroutines calling one opener's Close.
InitOnce == ExchangeIdle /\ OnceInit /\ FrameIdle /\ MutateIdle /\ OpenerIdle
        /\ ParIdle /\ StreamIdle

NextOnce ==
    \E c \in Callers :
        \/ CloseCall(c)
        \/ ConnCloseDirect(c)
        \/ OnceLoad(c)
        \/ OnceLock(c)
        \/ OnceCheck(c)
        \/ OnceRun(c)
        \/ OnceStore(c)
        \/ OnceUnlock(c)

SpecOnce == InitOnce /\ [][NextOnce]_vars

\* Framing and sending packed messages of every length class.
InitFrame == ExchangeIdle /\ OnceIdle /\ FrameInit /\ MutateIdle /\ OpenerIdle
        /\ ParIdle /\ StreamIdle

NextFrame == FrameMsg \/ FramePanic \/ FrameWrite

SpecFrame == InitFrame /\ [][NextFrame]_vars

\* MutateQuery of each opener on every query.
InitMutate == ExchangeIdle /\ OnceIdle /\ FrameIdle /\ MutateInit /\ OpenerIdle
        /\ ParIdle /\ StreamIdle

NextMutate == ApplyTCP \/ ApplyTLS \/ ApplyQUIC

SpecMutate == InitMutate /\ [][NextMutate]_vars

\* Two calls of ExchangeWithStreamOpener that differ in their hooks only.
InitOpener == ExchangeIdle /\ OnceIdle /\ FrameIdle /\ MutateIdle /\ OpenerInit
        /\ ParIdle /\ StreamIdle

NextOpener ==
    \/ EwOpenStream
    \/ EwSetDeadline
    \/ EwPrepare
    \/ EwObserveQuery
    \/ EwWrite
    \/ EwHalfClose
    \/ EwRead
    \/ EwObserveResponse
    \/ EwDecode
    \/ EwClearDeadline
    \/ EwDeferClose
    \/ EwCallAgain

SpecOpener == InitOpener /\ [][NextOpener]_vars

\* Exchange calls running concurrently on one Transport.
InitPar == ExchangeIdle /\ OnceIdle /\ FrameIdle /\ MutateIdle /\ OpenerIdle
        /\ ParInit /\ StreamIdle

NextPar ==
    \E i \in Calls :
        \/ ParDial(i)
        \/ ParSpawn(i)
        \/ ParWatcher(i)
        \/ ParOpenStream(i)
        \/ ParWrite(i)
        \/ ParRead(i)
        \/ ParReturn(i)
        \/ ParCancel(i)

SpecPar == InitPar /\ [][NextPar]_vars

\* Calls on a TCP or TLS opener and on the stream it opened.
InitStream == ExchangeIdle /\ OnceIdle /\ FrameIdle /\ MutateIdle /\ OpenerIdle
        /\ ParIdle /\ StreamInit

NextStream ==
    \/ StStreamClose
    \/ StStreamRead
    \/ StStreamWrite
    \/ StOpenerClose

SpecStream == InitStream /\ [][NextStream]_vars


\* One Exchange under fair scheduling: the goroutine of Exchange and the
\* watcher each take their next step when they can, except that a Write or
\* a Read may block for ever on a peer that does not answer, in which case
\* the caller's context is canceled or reaches its deadline.
InitLive == Init /\ wire = newStreamMsgFrame(<<0, 0, 1>>)

Blocking == pc \in {"write", "readHeader", "readBody"}

Fairness ==
    /\ WF_vars(Spawn)
    /\ WF_vars(Watcher)
    /\ WF_vars(OpenStreamOK \/ OpenStreamFail)
    /\ WF_vars(SetDeadline)
    /\ WF_vars(Prepare)
    /\ WF_vars(HalfClose)
    /\ WF_vars(Decode)
    /\ WF_vars(DeferStreamClose)
    /\ WF_vars(DeferCancel)
    /\ WF_vars(Blocking /\ (Cancel \/ DeadlineExpire))

SpecLive == InitLive /\ [][Next]_vars /\ Fairness

\* One Exchange whose caller does not cancel, reading what a peer framed
\* with newStreamMsgFrame: messages of the lengths below, with or without
\* bytes that follow the frame on the stream.
ReadLens ==
    {0, 1, MaxPayload, 255, 256, 257, QueryMaxResponseSizeTCP,
     QueryMaxResponseSizeTCP + 1, MaxUint16}

ReadQueries ==
    {NewQuery(GoodName, 258, 4), [NewQuery(GoodName, 0, 0) EXCEPT !.MaxSize = 512]}

InitRead ==
    /\ proto \in {"tcp", "quic"}
    /\ hasDeadline = FALSE
    /\ \E n \in ReadLens, t \in {<<>>, <<0, 1>>}, q \in ReadQueries :
           LET f == newStreamMsgFrame(PackedMsg(n, MaxSeed))
           IN  /\ fr = [len |-> n, seed |-> MaxSeed, pc |-> "sent", frame |-> f,
                        err |-> "nil", writes |-> <<f>>]
               /\ ExchangeEntry(q, f \o t)
    /\ OnceIdle /\ MutateIdle /\ OpenerIdle /\ ParIdle /\ StreamIdle

NextRead ==
    \/ DialOK
    \/ Spawn
    \/ Watcher
    \/ OpenStreamOK
    \/ SetDeadline
    \/ Prepare
    \/ Write
    \/ HalfClose
    \/ ReadHeader
    \/ ReadBody
    \/ Decode
    \/ DeferStreamClose
    \/ DeferCancel

SpecRead == InitRead /\ [][NextRead]_vars

\* ------------------------------------------------------------ properties

Returned == pc = "done"

\* The dial succeeded: the watcher was started.
Dialed == wpc # "none"

Reads == {i \in DOMAIN streamLog : streamLog[i].op = "Read"}

\* The payload of the frame the peer sends.
WirePayload == SubSeq(wire, 3, Len(wire))

\* The calls of DialContext and of OpenStream, as positions in connLog.
DialCalls == {i \in DOMAIN connLog : connLog[i].op = "DialContext"}
OpenCalls == {i \in DOMAIN connLog : connLog[i].op = "OpenStream"}

\* DialContext returned an error.
DialFailed == \E i \in DialCalls : connLog[i].err # "nil"

\* OpenStream returned a stream.
StreamOpened == \E i \in OpenCalls : connLog[i].err = "nil"

\* The calls on the stream of the operations named, as positions.
StreamOps(names) == {i \in DOMAIN streamLog : streamLog[i].op \in names}

\* NewMsg or Pack fails on the query Exchange holds.
EncodeFails == NewMsgFails(heap[query]) \/ PackFails(NewMsg(heap[query]))

\* C1: for every protocol and on every exit path, the caller's query holds
\* the field values it held before the call: MutateQuery only ever changes
\* the clone.
C1_CallerQueryUnchanged == heap["caller"] = orig

\* C1 witness: a QUIC exchange returned a response, and the clone it sent
\* differs from the caller's query.
C1_Witness ==
    /\ Returned /\ ret.err = "nil" /\ proto = "quic"
    /\ query = "clone" /\ heap["clone"] # orig /\ heap["clone"].ID # orig.ID

\* C2: the connection-close primitive runs at most once, not at all before
\* the watcher exists, and exactly once when the watcher has finished,
\* whether the caller's context ended or Exchange returned first.
C2_ClosedExactlyOnce ==
    /\ conn.closeCalls <= 1
    /\ ~Dialed => conn.closeCalls = 0
    /\ wpc = "done" => conn.closeCalls = 1

\* C2 witness: the caller canceled during the exchange, Exchange returned
\* and the watcher finished, with one close of a TCP connection.
C2_Witness ==
    /\ Returned /\ wpc = "done" /\ parentDone = "canceled" /\ proto = "tcp"
    /\ conn.closeCalls = 1

\* C3 as claimed: when Exchange returns after a successful dial, the
\* connection is closed.
C3_ClosedAtReturn == (Returned /\ Dialed) => conn.closed

\* C3 as amended: when Exchange returns after a successful dial, the derived
\* context is canceled, so the watcher is free to close the connection, and
\* the connection is closed once the watcher has finished.
C3_CanceledAtReturn ==
    (Returned /\ Dialed) =>
        /\ cancelCalled
        /\ wpc = "wait" => ENABLED Watcher
        /\ wpc = "done" => conn.closed

\* C3 witness: Exchange has returned a response and the watcher has not yet
\* closed the connection.
C3_Witness ==
    Returned /\ Dialed /\ ret.err = "nil" /\ wpc = "wait" /\ ~conn.closed

\* C4 as claimed, in the case it singles out: when the caller's context ends
\* before or during dial, write or read, Exchange does not return the raw
\* error of I/O on the connection the watcher has closed (it returns the
\* context's error).
C4_NoClosedConnErrorOnCancel ==
    (Returned /\ cancelPc \in {"dial", "write", "readHeader", "readBody"})
        => ret.err # "net.ErrClosed"

\* C5: every Read of the stream comes after a Close of the stream, which
\* comes after the Write of the frame.
C5_HalfCloseBeforeRead ==
    \A i \in Reads :
        \E j \in 1..(i - 1) :
            /\ streamLog[j].op = "Close"
            /\ \E k \in 1..(j - 1) : streamLog[k].op = "Write"

\* C5 witness: the stream has been read.
C5_Witness == Reads # {} /\ proto = "quic"

\* C8: however the stream splits the frame into reads, the payload handed
\* to the decoder is the frame's payload.
C8_Reassembled == pc = "decode" => rawResp = WirePayload

\* C8 witness: a frame of five bytes or more arrived one byte per Read.
C8_Witness ==
    /\ pc = "decode" /\ Len(wire) >= 5 /\ Cardinality(Reads) = Len(wire)
    /\ rawResp = WirePayload

\* C9: a response is returned only when the whole frame was delivered and
\* read; and when the stream fails before that, Exchange returns an error,
\* the stream's own unless that is EOF.
C9_NoPartialFrame ==
    /\ (Returned /\ ret.err = "nil") =>
            /\ rdPos = Len(wire)
            /\ rawResp = WirePayload
            /\ ret.resp = <<Unpack(WirePayload)>>
    /\ (Returned /\ streamErr # "nil" /\ rdPos < Len(wire)) =>
            /\ ret.resp = NoResp
            /\ IF streamErr = "io.EOF"
               THEN ret.err \in {"io.EOF", "io.ErrUnexpectedEOF"}
               ELSE ret.err = streamErr

\* C9 witness: the stream hit EOF inside the payload and Exchange returned
\* io.ErrUnexpectedEOF.
C9_Witness ==
    /\ Returned /\ streamErr = "io.EOF" /\ rdPos > 2 /\ rdPos < Len(wire)
    /\ ret.err = "io.ErrUnexpectedEOF"

\* C6: for the QUIC opener, however many goroutines call Close and however
\* they interleave, the underlying CloseWithError runs at most once, it has
\* run and returned before any Close returns, and when it returned nil every
\* Close returns nil.
C6_QuicCloseOnce ==
    ocKind = "quic" =>
        /\ ocCalls <= 1
        /\ \A c \in Callers :
            Len(ocRets[c]) > 0 => (ocCalls = 1 /\ ocDone)
        /\ ocRes = "nil" =>
            \A c \in Callers :
                \A i \in DOMAIN ocRets[c] : ocRets[c][i].err = "nil"

\* C6 witness: two goroutines raced into the slow path of the Once; one ran
\* the close, the other found it done; both returned nil.
C6_Witness ==
    /\ ocKind = "quic" /\ ocRes = "nil" /\ ocCalls = 1
    /\ \E c, d \in Callers :
        /\ c # d
        /\ Len(ocRets[c]) > 0 /\ ocRets[c][1] = [err |-> "nil", path |-> "ran"]
        /\ Len(ocRets[d]) > 0 /\ ocRets[d][1] = [err |-> "nil", path |-> "skipped"]

\* C7: the frame of a packed message of length L <= 65535 has length L + 2,
\* its first two bytes are L div 256 and L mod 256 (L in big-endian), the
\* message follows unchanged, and the stream is handed the whole frame in
\* one Write.
C7_FrameLayout ==
    fr.pc \in {"write", "sent", "failed"} =>
        LET f == fr.frame
            m == PackedMsg(fr.len, fr.seed)
        IN  /\ fr.len <= MaxUint16
            /\ Len(f) = fr.len + 2
            /\ f[1] = fr.len \div 256 /\ f[2] = fr.len % 256
            /\ f[1] \in 0..255 /\ f[2] \in 0..255
            /\ f[1] * 256 + f[2] = Len(f) - 2
            /\ SubSeq(f, 3, Len(f)) = m
            /\ fr.pc = "write" => fr.writes = <<>>
            /\ fr.pc # "write" => fr.writes = <<f>>

\* C7 witness: a message of 257 bytes was framed behind the prefix 1, 1 and
\* written.
C7_Witness ==
    /\ fr.pc = "sent" /\ fr.len = 257
    /\ fr.frame[1] = 1 /\ fr.frame[2] = 1 /\ Len(fr.writes) = 1

\* C10 as claimed: after the TCP opener's MutateQuery the max size is the
\* TCP maximum, the padding and DNSSEC flags are unset and the ID is the
\* input's, whatever the input.
C10_TCPFlagsUnset ==
    (mq.p = "tcp" /\ mq.n >= 1) =>
        /\ mq.out.MaxSize = QueryMaxResponseSizeTCP
        /\ ~HasFlag(mq.out.Flags, QueryFlagBlockLengthPadding)
        /\ ~HasFlag(mq.out.Flags, QueryFlagDNSSec)
        /\ mq.out.ID = mq.in.ID

\* C10 as amended: after the TCP opener's MutateQuery the max size is the
\* TCP maximum and the flags and the ID are the input's: the padding and
\* DNSSEC flags are unset when the input had them unset.
C10_TCPFlagsKept ==
    (mq.p = "tcp" /\ mq.n >= 1) =>
        /\ mq.out.MaxSize = QueryMaxResponseSizeTCP
        /\ mq.out.Flags = mq.in.Flags
        /\ mq.out.ID = mq.in.ID
        /\ mq.out.Name = mq.in.Name /\ mq.out.Type = mq.in.Type

\* C10 witness: the TCP opener mutated a query that came with a non-zero
\* ID, another max size and the padding flag set, and the flag is still set.
C10_Witness ==
    /\ mq.p = "tcp" /\ mq.n = 1
    /\ mq.in.ID = 12345 /\ mq.in.MaxSize = 1232
    /\ HasFlag(mq.in.Flags, QueryFlagBlockLengthPadding)
    /\ HasFlag(mq.out.Flags, QueryFlagBlockLengthPadding)

\* C11: after the TLS opener's MutateQuery the max size is the TCP maximum,
\* the padding and DNSSEC flags are both set and the ID is the input's,
\* whatever the input.
C11_TLSMutate ==
    (mq.p = "tls" /\ mq.n >= 1) =>
        /\ mq.out.MaxSize = QueryMaxResponseSizeTCP
        /\ HasFlag(mq.out.Flags, QueryFlagBlockLengthPadding)
        /\ HasFlag(mq.out.Flags, QueryFlagDNSSec)
        /\ mq.out.ID = mq.in.ID

\* C11 witness: the TLS opener mutated a query that came with a non-zero ID
\* and neither flag set.
C11_Witness ==
    /\ mq.p = "tls" /\ mq.n = 1
    /\ mq.in.ID = 12345 /\ mq.in.MaxSize = 1232
    /\ ~HasFlag(mq.in.Flags, QueryFlagBlockLengthPadding)
    /\ ~HasFlag(mq.in.Flags, QueryFlagDNSSec)
    /\ mq.out.ID = 12345 /\ mq.out.Flags # mq.in.Flags

\* C12: after the QUIC opener's MutateQuery the max size is the TCP maximum,
\* the padding and DNSSEC flags are both set and the ID is 0, whatever the
\* input; and the frame Exchange builds of the mutated query carries ID 0.
C12_QUICMutate ==
    (mq.p = "quic" /\ mq.n >= 1) =>
        /\ mq.out.MaxSize = QueryMaxResponseSizeTCP
        /\ HasFlag(mq.out.Flags, QueryFlagBlockLengthPadding)
        /\ HasFlag(mq.out.Flags, QueryFlagDNSSec)
        /\ mq.out.ID = 0
        /\ LET f == newStreamMsgFrame(Pack(NewMsg(mq.out)))
           IN  f[3] = 0 /\ f[4] = 0

\* C12 witness: the QUIC opener mutated a query that came with ID 12345.
C12_Witness ==
    /\ mq.p = "quic" /\ mq.n = 1
    /\ mq.in.ID = 12345 /\ mq.in.Flags = 0
    /\ mq.out.ID = 0

\* C13: DialContext is called at most once, and when it returned an error
\* Exchange has returned that error and no response, no stream was opened or
\* used, no watcher was started and no connection was closed.
C13_DialErrorReturned ==
    /\ Cardinality(DialCalls) <= 1
    /\ DialFailed =>
        /\ Returned
        /\ ret = Fail(connLog[1].err)
        /\ Len(connLog) = 1
        /\ OpenCalls = {}
        /\ streamLog = <<>>
        /\ wpc = "none"
        /\ conn.closeCalls = 0 /\ ~conn.closed

\* C13 witness: the context was canceled before the dial, and Exchange
\* returned the context's error from the dialer.
C13_Witness ==
    /\ Returned /\ DialFailed
    /\ parentDone = "canceled" /\ cancelPc = "dial"
    /\ ret.err = "context.Canceled"

\* C14: when stream.Write returned an error, Exchange returns that error and
\* no response, and the stream is never read.
C14_WriteErrorReturned ==
    writeErr # "nil" =>
        /\ pc \in {"deferStream", "deferCancel", "done"}
        /\ ret = Fail(writeErr)
        /\ Reads = {}

\* C14 witness: the Write failed with a broken pipe and Exchange returned
\* it.
C14_Witness ==
    Returned /\ writeErr = "EPIPE" /\ ret.err = "EPIPE" /\ parentDone = "no"

\* C15: when NewMsg or Pack fails on the mutated clone, Exchange returns an
\* error and the stream is neither written nor read; without a deadline the
\* stream sees nothing but Close, exactly once by the time Exchange returns.
C15_EncodeErrorNoIO ==
    (query = "clone" /\ EncodeFails) =>
        /\ pc \in {"deferStream", "deferCancel", "done"}
        /\ ret.err \in {"dnscodec: invalid name", "dns: pack failed"}
        /\ ret.resp = NoResp
        /\ StreamOps({"Write", "WriteErr", "Read"}) = {}
        /\ written = <<>> /\ rdPos = 0
        /\ ~hasDeadline => StreamOps({"Close"}) = DOMAIN streamLog
        /\ (~hasDeadline /\ Returned) => streamLog = <<Op("Close", 0)>>

\* C15 witness: Pack failed on an over-long label, without a deadline, and
\* Exchange returned after closing the stream.
C15_Witness ==
    /\ Returned /\ query = "clone" /\ ~hasDeadline
    /\ orig.Name = LongLabelName /\ ret.err = "dns: pack failed"
    /\ streamLog = <<Op("Close", 0)>>

\* C16: when the payload read unpacks (three bytes or more, not starting
\* with 255) but lacks the response bit or carries another ID than the
\* query sent, Exchange returns dnscodec.ErrInvalidResponse and no response.
C16_InvalidResponse ==
    (/\ pc \in {"deferStream", "deferCancel", "done"}
     /\ Len(rawResp) >= 3
     /\ rawResp[1] # 255
     /\ \/ rawResp[3] % 2 = 0
        \/ rawResp[1] * 256 + rawResp[2] # queryMsg.ID)
    => ret = Fail("dnscodec.ErrInvalidResponse")

\* C16 witness: the peer answered with the query's ID and without the
\* response bit.
C16_Witness ==
    /\ Returned /\ rawResp = <<1, 2, 0>> /\ queryMsg.ID = 258
    /\ ret.err = "dnscodec.ErrInvalidResponse"

\* C17: without a deadline SetDeadline is never called on the stream; with
\* one, it is the first call on the stream, with the context's deadline,
\* ahead of every Write.
C17_DeadlineIffCtx ==
    /\ ~hasDeadline => StreamOps({"SetDeadline"}) = {}
    /\ (hasDeadline /\ StreamOpened /\ pc \notin {"open", "deadline"}) =>
            /\ streamLog # <<>>
            /\ streamLog[1] = Op("SetDeadline", 1)
    /\ \A i \in StreamOps({"Write", "WriteErr"}) :
            hasDeadline <=>
                \E j \in 1..(i - 1) : streamLog[j] = Op("SetDeadline", CtxDeadline)

\* C17 witness: with a deadline, the stream saw SetDeadline and then Write.
C17_Witness ==
    /\ hasDeadline /\ Len(streamLog) >= 2
    /\ streamLog[1].op = "SetDeadline" /\ streamLog[2].op = "Write"

\* C19: when Exchange returns after OpenStream gave it a stream, the stream
\* has been closed at least once.
C19_StreamClosedAtReturn ==
    (Returned /\ StreamOpened) => StreamOps({"Close"}) # {}

\* C19 witness: Exchange returned a read error after the half-close, with
\* two Closes of the stream.
C19_Witness ==
    /\ Returned /\ StreamOpened /\ ret.err = "read failed"
    /\ Cardinality(StreamOps({"Close"})) = 2

C20_HooksDoNotInterfere ==
    (ew.call = "hooked" /\ ew.runs["hooked"].pc = "done") =>
        /\ ew.runs["hooked"].written = ew.runs["base"].written
        /\ ew.runs["hooked"].decoded = ew.runs["base"].decoded
        /\ ew.runs["hooked"].ret = ew.runs["base"].ret
        /\ ew.runs["hooked"].log = ew.runs["base"].log

\* C20 witness: both hooks flipped the first byte of what they were given,
\* the query hook ahead of the Write, and the call returned a response.
C20_Witness ==
    /\ ew.call = "hooked" /\ ew.runs["hooked"].pc = "done"
    /\ ew.hooks["hooked"] = [q |-> "flip", r |-> "flip"]
    /\ ew.in.hookFirst
    /\ Len(ew.runs["hooked"].seenQ) = 1 /\ Len(ew.runs["hooked"].seenR) = 1
    /\ ew.runs["hooked"].ret.err = "nil"

\* C26: OpenStream is called at most once: not at all when the dial failed,
\* once by the time Exchange has passed that step after a successful dial;
\* and the stream sees at most one Write.
C26_OneStreamOneWrite ==
    /\ Cardinality(OpenCalls) <= 1
    /\ DialFailed => OpenCalls = {}
    /\ (Dialed /\ pc \notin {"spawn", "open"}) => Cardinality(OpenCalls) = 1
    /\ ~Dialed => OpenCalls = {}
    /\ Cardinality(StreamOps({"Write", "WriteErr"})) <= 1

\* C26 witness: Exchange returned a response after one OpenStream and one
\* Write.
C26_Witness ==
    /\ Returned /\ ret.err = "nil"
    /\ Cardinality(OpenCalls) = 1 /\ Cardinality(StreamOps({"Write"})) = 1

\* C28 as claimed: when Exchange returns after OpenStream gave it a stream,
\* the stream's Close has been called exactly once.
C28_ClosedExactlyOnce ==
    (Returned /\ StreamOpened) => Cardinality(StreamOps({"Close"})) = 1

\* C28 as amended: when Exchange returns after OpenStream gave it a stream,
\* the stream's Close has been called once when the exchange failed before
\* or in the Write, and twice (the half-close and the deferred close) when
\* the Write succeeded.
C28_ClosedOnceOrTwice ==
    (Returned /\ StreamOpened) =>
        Cardinality(StreamOps({"Close"})) =
            (IF StreamOps({"Write"}) # {} THEN 2 ELSE 1)

\* C28 witness: Exchange returned a response, with two Closes of the stream.
C28_Witness ==
    /\ Returned /\ StreamOpened /\ ret.err = "nil"
    /\ Cardinality(StreamOps({"Close"})) = 2

\* C30: the connection is closed only once the derived context is done, by
\* the caller's context ending or by the cancel deferred to Exchange's
\* return; the watcher makes one close call and is then finished.
C30_CloseOnlyAfterDone ==
    /\ conn.closeCalls > 0 => CtxDone
    /\ cancelCalled => Returned
    /\ (parentDone = "no" /\ ~Returned) => (~conn.closed /\ wpc # "done")
    /\ conn.closeCalls <= 1
    /\ (wpc = "done") <=> (conn.closeCalls = 1)

\* C30 witness: the deadline passed during the read of the prefix and the
\* watcher closed the connection while Exchange was still running.
C30_Witness ==
    /\ ~Returned /\ parentDone = "deadline" /\ cancelPc = "readHeader"
    /\ wpc = "done" /\ conn.closeCalls = 1 /\ ~cancelCalled

\* C27 as claimed: the message a response is matched against carries the ID
\* of the caller's query as it came.
C27_MatchedAgainstOriginal == pc = "decode" => queryMsg.ID = orig.ID

\* C27 as amended: the message a response is matched against is the message
\* of the mutated clone, the one that was sent: it carries the ID written on
\* the stream, which for QUIC is 0 whatever the caller's ID, and a response
\* is returned only when it carries that ID.
C27_MatchedAgainstSent ==
    /\ pc = "decode" =>
        /\ heap["clone"] = MutateQuery(proto, orig)
        /\ queryMsg = NewMsg(heap["clone"])
        /\ queryMsg.ID = written[3] * 256 + written[4]
        /\ proto = "quic" => queryMsg.ID = 0
    /\ (Returned /\ ret.err = "nil") =>
        ret.resp[1].ID = written[3] * 256 + written[4]

\* C27 witness: a QUIC exchange for a query with ID 258 returned the
\* response with ID 0.
C27_Witness ==
    /\ Returned /\ proto = "quic" /\ orig.ID = 258
    /\ ret.err = "nil" /\ ret.resp[1].ID = 0

\* C29, the order of the calls made: DialContext, then OpenStream; on the
\* stream SetDeadline first, then the Write, then the half-close and the
\* Reads, with nothing but a Close after a failed Write; the query is
\* encoded before the Write; and the error returned is that of the step
\* that failed.
C29_Order ==
    /\ Len(connLog) <= 2
    /\ \A i \in DOMAIN connLog :
            connLog[i].op = (IF i = 1 THEN "DialContext" ELSE "OpenStream")
    /\ Len(connLog) = 2 => connLog[1].err = "nil"
    /\ streamLog # <<>> => StreamOpened
    /\ \A i \in DOMAIN streamLog :
            /\ streamLog[i].op = "SetDeadline" => i = 1
            /\ streamLog[i].op \in {"Write", "WriteErr"} =>
                    \A j \in 1..(i - 1) : streamLog[j].op = "SetDeadline"
            /\ streamLog[i].op = "WriteErr" =>
                    \A j \in (i + 1)..Len(streamLog) :
                        streamLog[j].op = "Close" /\ j = Len(streamLog)
            /\ streamLog[i].op = "Read" =>
                    /\ i > 2 /\ streamLog[i - 1].op \in {"Close", "Read"}
                    /\ \A j \in (i + 1)..Len(streamLog) :
                            streamLog[j].op \in {"Read", "Close"}
    /\ StreamOps({"Write", "WriteErr"}) # {} => (queryMsg # NoMsg /\ ~EncodeFails)
    /\ (connLog # <<>> /\ connLog[Len(connLog)].err # "nil") =>
            (ret = Fail(connLog[Len(connLog)].err) /\ streamLog = <<>>)
    /\ writeErr # "nil" => ret = Fail(writeErr)

\* C29, the steps: while no result is set Exchange moves to the next step
\* of the fixed order; the step that sets a result moves to the deferred
\* calls; and once a result is set it stays, no call is made on the dialer
\* or the connection, and the stream sees nothing but Close.
C29_Step ==
    /\ pc' # pc =>
            IF ret'.err = "unset"
            THEN <<pc, pc'>> \in
                    {<<"dial", "spawn">>, <<"spawn", "open">>, <<"open", "deadline">>,
                     <<"deadline", "prepare">>, <<"prepare", "write">>,
                     <<"write", "halfclose">>, <<"halfclose", "readHeader">>,
                     <<"readHeader", "readBody">>, <<"readBody", "decode">>}
            ELSE pc' \in {"deferStream", "deferCancel", "done"}
    /\ ret.err # "unset" =>
            /\ ret' = ret
            /\ connLog' = connLog
            /\ written' = written /\ rdPos' = rdPos
            /\ streamLog' \in {streamLog, Append(streamLog, Op("Close", 0))}

\* C29: Exchange runs its steps in the fixed order and is terminal on its
\* first error, which is the error it returns.
C29_TerminalOnFirstError == []C29_Order /\ [][C29_Step]_vars

\* C29 witness: the read of the prefix failed after one byte; Exchange
\* returned that error and the payload was never read.
C29_Witness ==
    /\ Returned /\ streamErr = "read failed" /\ rdPos = 1
    /\ ret.err = "read failed" /\ rawResp = <<>>
    /\ streamLog[Len(streamLog)].op = "Close"
    /\ streamLog[Len(streamLog) - 1].op = "Read"

\* C21: a hook that is not set is not called and a hook is called at most
\* once; ObserveRawQuery is given the packed mutated query, which is the
\* written frame without its prefix, and is called whenever the frame was
\* written; ObserveRawResponse is given the payload of the response frame,
\* and has been called by the time the payload is decoded.
C21_HooksSeeWireBytes ==
    \A c \in {"base", "hooked"} :
        LET r == ew.runs[c]
            h == ew.hooks[c]
        IN  /\ h.q = "unset" => r.seenQ = <<>>
            /\ h.r = "unset" => r.seenR = <<>>
            /\ Len(r.seenQ) <= 1 /\ Len(r.seenR) <= 1
            /\ r.seenQ # <<>> =>
                    r.seenQ[1] = Pack(NewMsg(MutateQuery(ew.in.p, ew.in.q)))
            /\ (r.seenQ # <<>> /\ r.written # <<>>) =>
                    r.seenQ[1] = SubSeq(r.written, 3, Len(r.written))
            /\ (h.q # "unset" /\ r.written # <<>> /\ r.pc = "done") =>
                    r.seenQ # <<>>
            /\ r.seenR # <<>> => r.seenR[1] = ew.in.payload
            /\ (h.r # "unset" /\ r.pc = "decode") => r.seenR = <<r.rawResp>>
            /\ (h.r # "unset"
                /\ r.ret.err \in {"nil", "dns: unpack failed",
                                   "dnscodec.ErrInvalidResponse"}) =>
                    (r.seenR = <<ew.in.payload>> /\ r.decoded = ew.in.payload)

\* C21 witness: both hooks were set and called, and the call returned a
\* response.
C21_Witness ==
    /\ ew.call = "hooked" /\ ew.runs["hooked"].pc = "done"
    /\ ew.hooks["hooked"] = [q |-> "look", r |-> "flip"]
    /\ ew.runs["hooked"].ret.err = "nil"
    /\ ew.runs["hooked"].seenQ = <<SubSeq(ew.runs["hooked"].written, 3, 6)>>
    /\ ew.runs["hooked"].seenR = <<ew.in.payload>>

\* C25: no call closes the opener it was given; a second call on the same
\* opener therefore writes what the first wrote, reads when the first read
\* and returns a response when the first did.
C25_OpenerLeftOpen ==
    /\ ew.closes = 0
    /\ (ew.call = "hooked" /\ ew.runs["hooked"].pc = "done") =>
        LET b == ew.runs["base"]
            h == ew.runs["hooked"]
        IN  /\ b.written # <<>> => h.written = b.written
            /\ (\E i \in DOMAIN b.log : b.log[i].op = "Read") =>
                    \E i, j \in DOMAIN h.log :
                        i < j /\ h.log[i].op = "Write" /\ h.log[j].op = "Read"
            /\ b.ret.err = "nil" => h.ret.err = "nil"

\* C25 witness: the second call on the opener wrote, read and returned a
\* response, as the first had.
C25_Witness ==
    /\ ew.call = "hooked" /\ ew.runs["hooked"].pc = "done" /\ ew.closes = 0
    /\ ew.runs["base"].ret.err = "nil" /\ ew.runs["hooked"].ret.err = "nil"
    /\ \E i \in DOMAIN ew.runs["hooked"].log : ew.runs["hooked"].log[i].op = "Read"

\* C22: concurrent calls hold distinct connections, each with its own
\* watcher; a connection is closed only by the watcher of the call that
\* dialed it, only once that call's own context is done, and only that call
\* does I/O on it; a call whose caller did not cancel is never failed by a
\* closed connection and, once it has a connection, returns its response.
C22_CallsIndependent ==
    /\ \A i, j \in DOMAIN par.calls :
           (i # j /\ par.calls[i].conn # 0) => par.calls[i].conn # par.calls[j].conn
    /\ \A i \in DOMAIN par.calls :
           /\ par.calls[i].conn # 0 => par.conns[par.calls[i].conn].by = i
           /\ par.calls[i].wpc # "none" => par.calls[i].conn # 0
           /\ par.calls[i].ret = "net.ErrClosed" => par.calls[i].parentDone
           /\ (par.calls[i].pc = "done" /\ par.calls[i].conn # 0
               /\ ~par.calls[i].parentDone) => par.calls[i].ret = "nil"
    /\ \A k \in DOMAIN par.conns :
           /\ par.conns[k].closers \subseteq {par.conns[k].by}
           /\ par.conns[k].io \subseteq {par.conns[k].by}
           /\ par.conns[k].closed <=> par.conns[k].closers # {}
           /\ par.conns[k].closed => /\ ParCtxDone(par.conns[k].by)
                                     /\ par.calls[par.conns[k].by].wpc = "done"

\* C22 witness: one call was canceled, its connection closed and its I/O
\* failed, while another call is in the middle of its exchange on a
\* connection that is open.
C22_Witness ==
    \E i, j \in DOMAIN par.calls :
        /\ i # j
        /\ par.calls[i].parentDone /\ par.calls[i].ret = "net.ErrClosed"
        /\ par.conns[par.calls[i].conn].closed
        /\ par.calls[j].pc = "read" /\ ~par.calls[j].parentDone
        /\ ~par.conns[par.calls[j].conn].closed
        /\ par.conns[par.calls[j].conn].io = {j}

\* C23: a call calls DialContext once, first thing, with the endpoint of
\* the Transport, and never again; the connection it uses is the one that
\* dial returned, and no other call does I/O on it.
C23_DialOncePerCall ==
    /\ \A i \in DOMAIN par.calls :
           /\ Len(par.calls[i].dialed) = IF par.calls[i].pc = "dial" THEN 0 ELSE 1
           /\ \A n \in DOMAIN par.calls[i].dialed :
                  par.calls[i].dialed[n] = par.endpoint
           /\ par.calls[i].conn # 0 =>
                  /\ par.conns[par.calls[i].conn].by = i
                  /\ par.conns[par.calls[i].conn].ep = par.endpoint
    /\ \A k \in DOMAIN par.conns : par.conns[k].io \subseteq {par.conns[k].by}
    /\ Len(par.conns) =
           Cardinality({i \in DOMAIN par.calls : par.calls[i].conn # 0})

\* C23 witness: a call dialed and did its I/O on its own connection while
\* the connection of a call that had returned its response was still open.
C23_Witness ==
    \E i, j \in DOMAIN par.calls :
        /\ par.calls[i].pc = "done" /\ par.calls[i].ret = "nil"
        /\ ~par.conns[par.calls[i].conn].closed
        /\ par.calls[j].conn > par.calls[i].conn
        /\ par.calls[j].pc = "done" /\ par.calls[j].ret = "nil"
        /\ par.conns[par.calls[j].conn].io = {j}

StOps(name) == {n \in DOMAIN st.log : st.log[n].op = name}

\* C24: every Close of a TCP or TLS stream returns nil; the connection's
\* Close has been called once per Close of the opener, whatever the number
\* of stream Close calls; every Read and Write of the stream reaches the
\* connection, and succeeds unless the opener was closed before it.
C24_StreamCloseIsNoOp ==
    /\ \A n \in StOps("stream.Close") : st.log[n].err = "nil"
    /\ st.conn.closes = Cardinality(StOps("opener.Close"))
    /\ st.conn.reads = Cardinality(StOps("stream.Read"))
    /\ st.conn.writes = Cardinality(StOps("stream.Write"))
    /\ \A n \in StOps("stream.Read") \cup StOps("stream.Write") :
           st.log[n].err = "nil" <=> \A m \in StOps("opener.Close") : m > n

\* C24 witness: the stream was closed twice, then written to with success,
\* then the opener was closed, which closed the connection.
C24_Witness ==
    /\ st.kind \in {"tcp", "tls"}
    /\ Len(st.log) = 4
    /\ st.log[1] = Call("stream.Close", "nil")
    /\ st.log[2] = Call("stream.Close", "nil")
    /\ st.log[3] = Call("stream.Write", "nil")
    /\ st.log[4] = Call("opener.Close", "nil")
    /\ st.conn = [closes |-> 1, reads |-> 0, writes |-> 1]

\* C33: a packed message longer than 65535 bytes is never framed and never
\* written: newStreamMsgFrame panics on it, and only on it, without
\* returning a frame or an error; for every other length it returns a frame
\* and a nil error.
C33_TooLongPanics ==
    /\ fr.len > MaxUint16 =>
           /\ fr.pc \in {"frame", "panic"}
           /\ fr.frame = <<>> /\ fr.err = "unset" /\ fr.writes = <<>>
    /\ fr.pc = "panic" => fr.len > MaxUint16
    /\ (fr.len <= MaxUint16 /\ fr.pc \notin {"idle", "frame"}) =>
           /\ fr.err = "nil"
           /\ Len(fr.frame) = fr.len + 2

\* C33 witness: framing a message of 65536 bytes has panicked.
C33_Witness ==
    /\ fr.pc = "panic" /\ fr.len = MaxUint16 + 1
    /\ fr.frame = <<>> /\ fr.writes = <<>>

\* C39: for each protocol, MutateQuery applied twice gives what it gives
\* applied once, and its result is a query it leaves as it is; the name,
\* the type and every flag bit other than padding and DNSSEC are the
\* input's, and so is the ID except for QUIC.
C39_MutateIdempotent ==
    mq.n >= 1 =>
        /\ mq.out = MutateQuery(mq.p, mq.in)
        /\ MutateQuery(mq.p, mq.out) = mq.out
        /\ mq.out.Name = mq.in.Name /\ mq.out.Type = mq.in.Type
        /\ mq.out.Flags \div (2 * QueryFlagDNSSec)
               = mq.in.Flags \div (2 * QueryFlagDNSSec)
        /\ mq.p # "quic" => mq.out.ID = mq.in.ID

\* C39 witness: the QUIC opener mutated twice a query that came with an ID,
\* another max size and a flag bit that is neither padding nor DNSSEC.
C39_Witness ==
    /\ mq.p = "quic" /\ mq.n = 2
    /\ mq.in.ID = 12345 /\ mq.in.MaxSize = 1232 /\ mq.in.Type = 28
    /\ mq.in.Flags = 2 * QueryFlagDNSSec
    /\ mq.out.Flags = 2 * QueryFlagDNSSec + QueryFlagDNSSec
                          + QueryFlagBlockLengthPadding
    /\ mq.out.ID = 0

\* The calls of Close that have returned: the caller and the call's number.
CloseReturns == UNION {{<<c, i>> : i \in DOMAIN ocRets[c]} : c \in Callers}

\* C37: for the TCP and TLS openers every call of Close that has returned
\* has called the connection's Close itself, so k calls make k closes; the
\* first gets what the connection's first Close returned and each later one
\* what a Close of the closed connection returns.
C37_CloseNotLatched ==
    ocKind \in {"tcp", "tls"} =>
        /\ ocCalls = Cardinality(CloseReturns)
        /\ \A r \in CloseReturns : ocRets[r[1]][r[2]].path = "direct"
        /\ ocCalls >= 1 =>
               /\ Cardinality({r \in CloseReturns :
                      ocRets[r[1]][r[2]].err = "net.ErrClosed"}) = ocCalls - 1
               /\ Cardinality({r \in CloseReturns :
                      ocRets[r[1]][r[2]].err = ocRes}) = 1

\* C37 witness: three calls of a TLS opener's Close have closed the
\* connection three times.
C37_Witness ==
    /\ ocKind = "tls" /\ ocRes = "close failed"
    /\ ocCalls = MaxCloseCalls + 1 /\ Cardinality(CloseReturns) = ocCalls

\* C38: when the QUIC connection's CloseWithError returns an error, it is
\* called once, the call of Close that ran it returns the error and every
\* other call returns nil, and no call returns before it has completed.
C38_QuicCloseErrorToRunner ==
    (ocKind = "quic" /\ ocRes = "close failed") =>
        /\ ocCalls <= 1
        /\ CloseReturns # {} => (ocCalls = 1 /\ ocDone)
        /\ \A r \in CloseReturns :
               ocRets[r[1]][r[2]].err =
                   IF ocRets[r[1]][r[2]].path = "ran" THEN "close failed" ELSE "nil"
        /\ Cardinality({r \in CloseReturns : ocRets[r[1]][r[2]].path = "ran"}) <= 1

\* C38 witness: of two callers that raced, the one that ran the close got
\* its error and the other got nil, as did a call made afterwards.
C38_Witness ==
    /\ ocKind = "quic" /\ ocRes = "close failed" /\ ocCalls = 1
    /\ \E c, d \in Callers :
        /\ c # d
        /\ Len(ocRets[c]) > 0
        /\ ocRets[c][1] = [err |-> "close failed", path |-> "ran"]
        /\ Len(ocRets[d]) > 1
        /\ ocRets[d][1] = [err |-> "nil", path |-> "skipped"]
        /\ ocRets[d][2] = [err |-> "nil", path |-> "fast"]

\* stream.SetDeadline was called and returned an error.
SetDeadlineFailed ==
    /\ ~sdlSet
    /\ \E i \in DOMAIN streamLog : streamLog[i].op = "SetDeadline"

C35_Step ==
    pc = "deadline" => (pc' \in {"deadline", "prepare"} /\ ret' = ret)

\* C35: the step that sets the deadline leads to the encoding step and
\* leaves the result of Exchange alone whether SetDeadline failed or not,
\* and an Exchange whose SetDeadline failed is at the step, and has made
\* the calls on the stream, that it would have otherwise.
C35_DeadlineErrorDiscarded ==
    /\ []((pc = "prepare" => ret = NoRet)
          /\ (SetDeadlineFailed /\ ret.err = "nil") =>
                 \E i, j, k \in DOMAIN streamLog :
                     /\ i < j /\ j < k
                     /\ streamLog[i].op = "Write" /\ streamLog[j].op = "Close"
                     /\ streamLog[k].op = "Read")
    /\ [][C35_Step]_vars

\* C35 witness: SetDeadline failed and the exchange went on to write, to
\* half-close and to read, and returned a response.
C35_Witness ==
    /\ Returned /\ ret.err = "nil" /\ hasDeadline /\ SetDeadlineFailed
    /\ parentDone = "no"
    /\ Reads # {} /\ written # <<>>

\* The last call made on the stream is a Close.
LastIsClose == streamLog # <<>> /\ streamLog[Len(streamLog)].op = "Close"

C36_Step ==
    (parentDone' = "no" /\ streamLog' # streamLog /\ pc \in {"deferStream"}) =>
        (~cancelCalled /\ ~cancelCalled' /\ ~conn.closed /\ ~conn'.closed)

\* C36: while the caller's context is not done, the connection is closed
\* only after the cancel of the derived context, which is called only after
\* the last Close of the stream; that Close finds the derived context not
\* canceled and the connection open.
C36_StreamClosedBeforeConn ==
    /\ []((parentDone = "no" /\ StreamOpened) =>
             /\ conn.closed => cancelCalled
             /\ cancelCalled => (pc = "done" /\ LastIsClose)
             /\ pc \in {"deferStream"} => (~cancelCalled /\ ~conn.closed))
    /\ [][C36_Step]_vars

\* C36 witness: an exchange whose caller never canceled returned a
\* response; its stream was closed, then the watcher closed the connection.
C36_Witness ==
    /\ Returned /\ parentDone = "no" /\ StreamOpened /\ ret.err = "nil"
    /\ LastIsClose /\ cancelCalled /\ wpc = "done" /\ conn.closed

\* C32 as claimed: once Exchange has returned, nothing is done on the
\* connection it dialed or on its stream, not even a close.
C32_NoUseAfterReturn ==
    [][Returned => (conn' = conn /\ connLog' = connLog /\ streamLog' = streamLog)]_vars

\* C32 as amended: once Exchange has returned, the exchange does nothing on
\* the connection or its stream; the one thing that may still happen is the
\* single close of the connection by the watcher, which then ends.
C32_OnlyWatcherCloseAfterReturn ==
    [][Returned =>
          /\ connLog' = connLog /\ streamLog' = streamLog
          /\ conn' # conn =>
                 /\ wpc = "wait" /\ wpc' = "done"
                 /\ conn'.closed /\ conn'.closeCalls = conn.closeCalls + 1]_vars

\* C32 witness: Exchange returned with the caller's context not done, and
\* the watcher has closed the TCP connection since.
C32_Witness ==
    /\ Returned /\ Dialed /\ parentDone = "no" /\ proto = "tcp"
    /\ wpc = "done" /\ conn.closeCalls = 1

\* DialContext returned a connection.
DialSucceeded == \E i \in DialCalls : connLog[i].err = "nil"

\* C31: under fair scheduling, once the dial has succeeded the connection
\* is eventually closed and the watcher has ended, whether Exchange returns
\* or stays blocked on its peer until the caller's context ends.
C31_EventuallyClosed == DialSucceeded ~> (conn.closed /\ wpc = "done")

\* C31 witness: the peer never answered, the caller's context reached its
\* deadline while Exchange was blocked reading, and the watcher closed the
\* connection.
C31_Witness ==
    /\ pc = "readHeader" /\ Reads = {} /\ parentDone = "deadline"
    /\ cancelPc = "readHeader" /\ ~cancelCalled
    /\ conn.closed /\ wpc = "done"

\* The length the first two bytes of the peer's stream announce.
AnnouncedLen == wire[1] * 256 + wire[2]

\* C34: whatever the length announced and whatever the max size of the
\* query, Exchange sets out to read that many bytes and hands exactly those
\* bytes to the decoder; when it fails after a Read, and not in decoding,
\* it is with the error of the stream.
C34_NoSizeLimit ==
    /\ pc = "readBody" => want = AnnouncedLen
    /\ pc = "decode" =>
           /\ Len(rawResp) = AnnouncedLen
           /\ rawResp = SubSeq(wire, 3, AnnouncedLen + 2)
    /\ (Reads # {} /\ ret.err \notin {"unset", "nil", "dns: unpack failed",
                                       "dnscodec.ErrInvalidResponse"}) =>
           /\ streamErr # "nil"
           /\ ret.err \in {"io.EOF", "io.ErrUnexpectedEOF", "read failed",
                           "net.ErrClosed", "os.ErrDeadlineExceeded"}

\* C34 witness: a response one byte longer than the max size the query
\* advertises, which is more than the caller had asked for, is at the
\* decoder.
C34_Witness ==
    /\ pc = "decode" /\ Len(rawResp) = QueryMaxResponseSizeTCP + 1
    /\ heap[query].MaxSize = QueryMaxResponseSizeTCP
    /\ orig.MaxSize < QueryMaxResponseSizeTCP

\* The bytes of the stream that the reads of Exchange have used up.
Consumed == rdPos - Len(br.buf)

\* C40: when the peer's stream starts with the frame newStreamMsgFrame made
\* of a message, what Exchange hands to the decoder is that message, its
\* frame is the peer's frame again, and the reads have used up the frame
\* and nothing of what follows it.
C40_FrameReadInverse ==
    (fr.pc = "sent" /\ pc = "decode") =>
        /\ rawResp = PackedMsg(fr.len, fr.seed)
        /\ newStreamMsgFrame(rawResp) = fr.frame
        /\ Consumed = fr.len + 2

\* C40 witness: a message of 256 bytes was read back from its frame, and
\* the two bytes that follow the frame on the stream are still buffered.
C40_Witness ==
    /\ fr.pc = "sent" /\ fr.len = 256 /\ pc = "decode"
    /\ Len(wire) = fr.len + 4 /\ rdPos = Len(wire) /\ Len(br.buf) = 2
    /\ rawResp = PackedMsg(fr.len, fr.seed)

====
